---------------------------- MODULE Spec2Model ----------------------------
(***************************************************************************)
(* Model of the Alshival Node.js logging SDK: the client configuration     *)
(* store (src/src/client.js) and the cloud forwarding path of the logger   *)
(* (src/unnamed/part_000).                                                 *)
(*                                                                         *)
(* JavaScript values are tagged tuples: <<"null">>, <<"undefined">>,       *)
(* <<"string", s>>, <<"number", n>>, <<"boolean", b>>.  A string s is a    *)
(* sequence of tokens; a token is an atomic piece of text (" ", "/", a     *)
(* percent escape such as "%20", a word).  trim(), split('/'),             *)
(* encodeURIComponent, decodeURIComponent, toUpperCase and the URL parser  *)
(* work on these sequences as the JavaScript functions work on characters. *)
(***************************************************************************)
EXTENDS Integers, Sequences, FiniteSets, TLC

(***************************************************************************)
(* JavaScript values                                                       *)
(***************************************************************************)
JNull == <<"null">>
JUndef == <<"undefined">>
JStr(s) == <<"string", s>>
JNum(n) == <<"number", n>>
JBool(b) == <<"boolean", b>>

\* Numbers that are no integers: k/10, NaN and the two infinities.  The second
\* component keeps the sign, so that truthiness reads it as for an integer.
JTenths(k) == <<"number", k, "tenths">>
JNaN == <<"number", 0, "NaN">>
JInfinity == <<"number", 1, "Infinity">>
JNegInfinity == <<"number", -1, "-Infinity">>

IsInteger(v) == v[1] = "number" /\ Len(v) = 2

\* Number.isFinite(v)
Number_isFinite(v) == v[1] = "number" /\ (Len(v) = 2 \/ v[3] = "tenths")

\* Math.trunc(v) of a finite number: the fraction is dropped, toward zero.
Math_trunc(v) ==
  IF Len(v) = 2 THEN v
  ELSE <<"number", IF v[2] >= 0 THEN v[2] \div 10 ELSE -((-v[2]) \div 10)>>

TypeOf(v) == v[1]
IsStr(v) == v[1] = "string"
IsNum(v) == v[1] = "number"
IsBool(v) == v[1] = "boolean"
IsNullish(v) == v = JNull \/ v = JUndef

\* ToBoolean: the truthiness every `if (x)`, `!x` and `a || b` of the source uses.
Truthy(v) ==
  CASE v = JNull -> FALSE
    [] v = JUndef -> FALSE
    [] IsStr(v) -> v[2] # << >>
    [] IsNum(v) -> v[2] # 0
    [] IsBool(v) -> v[2]

\* a || b
OrElse(a, b) == IF Truthy(a) THEN a ELSE b

\* The decimal text of the numbers the model uses.
NumTok(n) ==
  CASE n = 0 -> "0" [] n = 5 -> "5" [] n = 7 -> "7" [] n = 9 -> "9"
    [] n = 10 -> "10" [] n = 20 -> "20" [] n = 30 -> "30" [] n = 40 -> "40"
    [] n = 42 -> "42" [] n = 45 -> "45" [] n = 50 -> "50"
    [] OTHER -> "n"

\* String(v)
ToStr(v) ==
  CASE v = JNull -> <<"null">>
    [] v = JUndef -> <<"undefined">>
    [] IsStr(v) -> v[2]
    [] IsNum(v) -> IF Len(v) = 2 THEN <<NumTok(v[2])>>
                   ELSE IF v[3] = "tenths"
                     THEN <<NumTok(v[2] \div 10), ".", NumTok(v[2] % 10)>>
                   ELSE <<v[3]>>
    [] IsBool(v) -> IF v[2] THEN <<"true">> ELSE <<"false">>

(***************************************************************************)
(* String functions on token sequences                                     *)
(***************************************************************************)
RECURSIVE TrimStart(_)
TrimStart(s) == IF s # << >> /\ Head(s) = " " THEN TrimStart(Tail(s)) ELSE s

RECURSIVE TrimEnd(_)
TrimEnd(s) ==
  IF s # << >> /\ s[Len(s)] = " " THEN TrimEnd(SubSeq(s, 1, Len(s) - 1)) ELSE s

\* String.prototype.trim
Trim(s) == TrimEnd(TrimStart(s))

RECURSIVE StripLeadingSlashes(_)
StripLeadingSlashes(s) ==
  IF s # << >> /\ Head(s) = "/" THEN StripLeadingSlashes(Tail(s)) ELSE s

RECURSIVE StripTrailingSlashes(_)
StripTrailingSlashes(s) ==
  IF s # << >> /\ s[Len(s)] = "/"
    THEN StripTrailingSlashes(SubSeq(s, 1, Len(s) - 1))
    ELSE s

\* s.replace(/\/$/, ''): one trailing slash is removed.
StripOneTrailingSlash(s) ==
  IF s # << >> /\ s[Len(s)] = "/" THEN SubSeq(s, 1, Len(s) - 1) ELSE s

UpperTok(t) ==
  CASE t = "none" -> "NONE" [] t = "None" -> "NONE" [] t = "off" -> "OFF"
    [] t = "false" -> "FALSE" [] t = "true" -> "TRUE" [] t = "null" -> "NULL"
    [] t = "disabled" -> "DISABLED" [] t = "disable" -> "DISABLE"
    [] t = "debug" -> "DEBUG" [] t = "info" -> "INFO" [] t = "warning" -> "WARNING"
    [] t = "warn" -> "WARN" [] t = "error" -> "ERROR" [] t = "Error" -> "ERROR"
    [] t = "alert" -> "ALERT" [] t = "alerts" -> "ALERTS"
    [] t = "critical" -> "CRITICAL" [] t = "fatal" -> "FATAL"
    [] t = "notset" -> "NOTSET" [] t = "undefined" -> "UNDEFINED"
    [] t = "NaN" -> "NAN" [] t = "Infinity" -> "INFINITY" [] t = "-Infinity" -> "-INFINITY"
    [] OTHER -> t

LowerTok(t) ==
  CASE t = "NONE" -> "none" [] t = "DEBUG" -> "debug" [] t = "INFO" -> "info"
    [] t = "WARNING" -> "warning" [] t = "ERROR" -> "error" [] t = "ALERT" -> "alert"
    [] t = "CRITICAL" -> "critical" [] t = "NOTSET" -> "notset"
    [] t = "LOGS" -> "logs" [] t = "Logs" -> "logs"
    [] t = "TRUE" -> "true" [] t = "True" -> "true" [] t = "ON" -> "on"
    [] t = "YES" -> "yes" [] t = "FALSE" -> "false"
    [] t = "Alshival.AI" -> "alshival.ai"
    [] OTHER -> t

\* toUpperCase / toLowerCase
ToUpperCase(s) == [i \in 1..Len(s) |-> UpperTok(s[i])]
ToLowerCase(s) == [i \in 1..Len(s) |-> LowerTok(s[i])]

\* encodeURIComponent, token by token: the reserved characters of the model's
\* alphabet are escaped, words are left alone.
EncodeTok(t) ==
  CASE t = " " -> "%20" [] t = "/" -> "%2F" [] t = "%20" -> "%2520"
    [] t = "%2F" -> "%252F" [] t = "%zz" -> "%25zz"
    [] OTHER -> t

encodeURIComponent(s) == [i \in 1..Len(s) |-> EncodeTok(s[i])]

\* decodeURIComponent: a well-formed escape is decoded, a malformed one ("%zz")
\* makes the call throw URIError.
MalformedEscapes == {"%zz"}

DecodeTok(t) ==
  CASE t = "%20" -> " " [] t = "%2F" -> "/" [] t = "%2520" -> "%20"
    [] OTHER -> t

decodeURIComponent(s) ==
  IF \E i \in 1..Len(s) : s[i] \in MalformedEscapes
    THEN [ok |-> FALSE, v |-> << >>]
    ELSE [ok |-> TRUE, v |-> [i \in 1..Len(s) |-> DecodeTok(s[i])]]

\* s contains p as a substring.
Contains(s, p) ==
  \E i \in 1..(Len(s) - Len(p) + 1) : SubSeq(s, i, i + Len(p) - 1) = p

(***************************************************************************)
(* Level vocabulary (src/src/client.js)                                    *)
(***************************************************************************)
ALERT_LEVEL == 45

DEFAULT_BASE_URL == <<"https:", "//", "alshival.dev">>

TRUE_ENV_VALUES == {<<"1">>, <<"true">>, <<"t">>, <<"yes">>, <<"y">>, <<"on">>}

DISABLED_LEVEL_VALUES ==
  {<<"NONE">>, <<"NULL">>, <<"FALSE">>, <<"OFF">>, <<"DISABLE">>, <<"DISABLED">>}

CLOUD_LEVEL_NAME_TO_NO ==
  [ALERT |-> ALERT_LEVEL, ERROR |-> 40, WARNING |-> 30, INFO |-> 20, DEBUG |-> 10]

LEVEL_NAME_TO_NO ==
  [ALERT |-> ALERT_LEVEL, ALERTS |-> ALERT_LEVEL, CRITICAL |-> 50, FATAL |-> 50,
   ERROR |-> 40, WARNING |-> 30, WARN |-> 30, INFO |-> 20, DEBUG |-> 10,
   NOTSET |-> 0]

\* The outcome of a call that may throw: err is "none" when it returned v.
Returned(v) == [err |-> "none", v |-> v]
Thrown(e) == [err |-> e, v |-> JUndef]

\* Object.prototype.hasOwnProperty.call(table, name) for a one-token name.
HasName(table, name) == Len(name) = 1 /\ name[1] \in DOMAIN table

\* coerceLevel without Math.trunc: a finite number is returned as it is.
coerceLevelNoTrunc(level) ==
  IF level = JNull THEN Returned(JNull)
  ELSE IF IsBool(level)
    THEN (IF level[2] = FALSE THEN Returned(JNull) ELSE Thrown("InvalidLevel"))
  ELSE IF IsNum(level) /\ Number_isFinite(level) THEN Returned(level)
  ELSE LET name == ToUpperCase(Trim(ToStr(level))) IN
    IF name \in DISABLED_LEVEL_VALUES THEN Returned(JNull)
    ELSE IF HasName(LEVEL_NAME_TO_NO, name)
      THEN Returned(JNum(LEVEL_NAME_TO_NO[name[1]]))
    ELSE Thrown("InvalidLevel")

\* coerceLevel (lines 51-72)
coerceLevel(level) ==
  IF level = JNull THEN Returned(JNull)
  ELSE IF IsBool(level)
    THEN (IF level[2] = FALSE THEN Returned(JNull) ELSE Thrown("InvalidLevel"))
  ELSE IF IsNum(level) /\ Number_isFinite(level) THEN Returned(Math_trunc(level))
  ELSE LET name == ToUpperCase(Trim(ToStr(level))) IN
    IF name \in DISABLED_LEVEL_VALUES THEN Returned(JNull)
    ELSE IF HasName(LEVEL_NAME_TO_NO, name)
      THEN Returned(JNum(LEVEL_NAME_TO_NO[name[1]]))
    ELSE Thrown("InvalidLevel")

coerceCloudLevel(level) ==
  IF ~IsStr(level) THEN Thrown("InvalidLevel")
  ELSE LET name == ToUpperCase(Trim(ToStr(level))) IN
    IF name = <<"NONE">> THEN Returned(JNull)
    ELSE IF HasName(CLOUD_LEVEL_NAME_TO_NO, name)
      THEN Returned(JNum(CLOUD_LEVEL_NAME_TO_NO[name[1]]))
    ELSE Thrown("InvalidLevel")

normalizePortalPrefix(value) ==
  IF IsNullish(value) THEN JNull
  ELSE LET raw == Trim(ToStr(value)) IN
    IF raw = << >> THEN JStr(<< >>)
    ELSE LET cleaned == <<"/">> \o StripTrailingSlashes(StripLeadingSlashes(raw)) IN
      IF cleaned = <<"/">> THEN JStr(<< >>) ELSE JStr(cleaned)

(***************************************************************************)
(* new URL(raw), as far as the source reads it: protocol, host, hostname   *)
(* and pathname of an absolute URL scheme//host[/path]; anything else      *)
(* makes the constructor throw.  The parser strips surrounding blanks,     *)
(* lowercases the host and escapes blanks of the path.                     *)
(***************************************************************************)
Schemes == {"https:", "http:"}

Hosts == {"alshival.dev", "alshival.ai", "www.alshival.ai", "h.example", "Alshival.AI"}

PathTok(t) == IF t = " " THEN "%20" ELSE t

ParseURL(s) ==
  LET t == Trim(s) IN
  IF Len(t) >= 3 /\ t[1] \in Schemes /\ t[2] = "//" /\ t[3] \in Hosts
      /\ (Len(t) = 3 \/ t[4] = "/")
    THEN [ok |-> TRUE, protocol |-> t[1], host |-> LowerTok(t[3]),
          pathname |-> IF Len(t) = 3 THEN <<"/">>
                       ELSE [i \in 1..(Len(t) - 3) |-> PathTok(t[i + 3])]]
    ELSE [ok |-> FALSE, protocol |-> "", host |-> "", pathname |-> << >>]

\* pathname.split('/').filter(Boolean)
RECURSIVE SplitAcc(_, _, _)
SplitAcc(s, cur, acc) ==
  IF s = << >> THEN (IF cur # << >> THEN Append(acc, cur) ELSE acc)
  ELSE IF Head(s) = "/"
    THEN SplitAcc(Tail(s), << >>, IF cur # << >> THEN Append(acc, cur) ELSE acc)
    ELSE SplitAcc(Tail(s), Append(cur, Head(s)), acc)

SplitSegments(path) == SplitAcc(path, << >>, << >>)

\* `/${segments.join('/')}` for a non-empty list of segments
RECURSIVE JoinSlash(_)
JoinSlash(segs) ==
  IF segs = << >> THEN << >> ELSE <<"/">> \o Head(segs) \o JoinSlash(Tail(segs))

(***************************************************************************)
(* parseResourceReference (src/src/client.js:112-161)                      *)
(***************************************************************************)
NoReference ==
  [err |-> "none", found |-> FALSE, baseUrl |-> << >>, portalPrefix |-> << >>,
   resourceOwnerUsername |-> << >>, resourceId |-> << >>]

ReferenceThrows(e) == [NoReference EXCEPT !.err = e]

\* The first index of the u/<owner>/resources/<id> pattern, 0 when absent.
PatternIndex(segments) ==
  LET hits == {i \in 1..(Len(segments) - 3) :
                 segments[i] = <<"u">> /\ segments[i + 2] = <<"resources">>}
  IN IF hits = {} THEN 0 ELSE CHOOSE i \in hits : \A j \in hits : i <= j

\* Lines 146-160: the reference built from the decoded owner and id.
ReferenceOf(parsed, prefixSegments, owner, resourceId) ==
  IF owner = << >> \/ resourceId = << >> THEN NoReference
  ELSE [err |-> "none", found |-> TRUE,
        baseUrl |-> StripOneTrailingSlash(<<parsed.protocol, "//", parsed.host>>),
        portalPrefix |-> JoinSlash(prefixSegments),
        resourceOwnerUsername |-> owner,
        resourceId |-> resourceId]

\* Lines 139-141: both segments are decoded; either call may throw.
DecodeReference(parsed, prefixSegments, ownerDec, idDec) ==
  IF ~ownerDec.ok \/ ~idDec.ok THEN ReferenceThrows("URIError")
  ELSE ReferenceOf(parsed, prefixSegments, Trim(ownerDec.v), Trim(idDec.v))

\* Lines 137-144: the loop stops at the first index that has the pattern.
MatchReference(parsed, segments, index) ==
  IF index = 0 THEN NoReference
  ELSE DecodeReference(parsed, SubSeq(segments, 1, index - 1),
                       decodeURIComponent(segments[index + 1]),
                       decodeURIComponent(segments[index + 3]))

\* Lines 129-131: a last segment "logs", in any case, is dropped.
DropLogs(segments) ==
  IF Len(segments) > 0 /\ ToLowerCase(segments[Len(segments)]) = <<"logs">>
    THEN SubSeq(segments, 1, Len(segments) - 1)
    ELSE segments

\* Lines 128-144 on the segments of the path.
ReferenceInSegments(parsed, segments) ==
  MatchReference(parsed, segments, PatternIndex(segments))

\* Lines 121-128 on the outcome of new URL(raw).
ReferenceInURL(parsed) ==
  IF ~parsed.ok THEN NoReference
  ELSE ReferenceInSegments(parsed, DropLogs(SplitSegments(parsed.pathname)))

\* Lines 116-126 on the trimmed text.
ReferenceInText(raw) ==
  IF raw = << >> THEN NoReference ELSE ReferenceInURL(ParseURL(raw))

parseResourceReference(resource) ==
  IF IsNullish(resource) THEN NoReference
  ELSE ReferenceInText(Trim(ToStr(resource)))

(***************************************************************************)
(* Environment defaults (src/src/client.js:31-37, 100-110, 163-184).       *)
(* process.env is a record of strings, <<"undefined">> for an unset name.  *)
(***************************************************************************)
envBool(value, defaultValue) ==
  IF value = JUndef THEN defaultValue
  ELSE ToLowerCase(Trim(ToStr(value))) \in TRUE_ENV_VALUES

\* Lines 105-109: the coerced level, the default when coercion throws.
LevelOrDefault(r, defaultValue) == IF r.err = "none" THEN r.v ELSE defaultValue

\* The variable read with the local vocabulary of coerceLevel.
envCloudLevelLocalVocabulary(value, defaultValue) ==
  IF value = JUndef \/ Trim(ToStr(value)) = << >> THEN defaultValue
  ELSE LevelOrDefault(coerceLevel(value), defaultValue)

envCloudLevel(value, defaultValue) ==
  IF value = JUndef \/ Trim(ToStr(value)) = << >> THEN defaultValue
  ELSE LevelOrDefault(coerceCloudLevel(value), defaultValue)

\* The returned object with the base URL variable, when set, before the
\* resource URL.
EnvConfigBaseUrlFirst(env, resourceEnv, debugEnv) ==
  [username |-> OrElse(env.ALSHIVAL_USERNAME, JNull),
   resourceOwnerUsername |->
     IF resourceEnv.found THEN JStr(resourceEnv.resourceOwnerUsername) ELSE JNull,
   apiKey |-> OrElse(env.ALSHIVAL_API_KEY, JNull),
   baseUrl |->
     JStr(StripOneTrailingSlash(ToStr(
       IF resourceEnv.found /\ ~Truthy(env.ALSHIVAL_BASE_URL)
         THEN JStr(resourceEnv.baseUrl)
       ELSE OrElse(env.ALSHIVAL_BASE_URL, JStr(DEFAULT_BASE_URL))))),
   portalPrefix |->
     IF resourceEnv.found THEN JStr(resourceEnv.portalPrefix)
     ELSE normalizePortalPrefix(env.ALSHIVAL_PORTAL_PREFIX),
   resourceId |-> IF resourceEnv.found THEN JStr(resourceEnv.resourceId) ELSE JNull,
   enabled |-> JBool(TRUE),
   cloudLevel |->
     envCloudLevel(env.ALSHIVAL_CLOUD_LEVEL,
                   IF debugEnv THEN JNum(LEVEL_NAME_TO_NO.DEBUG)
                   ELSE JNum(LEVEL_NAME_TO_NO.INFO)),
   timeoutSeconds |-> JNum(5),
   verifySsl |-> JBool(TRUE),
   debug |-> JBool(debugEnv)]

\* The returned object with the prefix variable, when set, before the
\* resource URL.
EnvConfigPrefixVariableFirst(env, resourceEnv, debugEnv) ==
  [username |-> OrElse(env.ALSHIVAL_USERNAME, JNull),
   resourceOwnerUsername |->
     IF resourceEnv.found THEN JStr(resourceEnv.resourceOwnerUsername) ELSE JNull,
   apiKey |-> OrElse(env.ALSHIVAL_API_KEY, JNull),
   baseUrl |->
     JStr(StripOneTrailingSlash(ToStr(
       IF resourceEnv.found THEN JStr(resourceEnv.baseUrl)
       ELSE OrElse(env.ALSHIVAL_BASE_URL, JStr(DEFAULT_BASE_URL))))),
   portalPrefix |->
     IF resourceEnv.found /\ env.ALSHIVAL_PORTAL_PREFIX = JUndef
       THEN JStr(resourceEnv.portalPrefix)
     ELSE normalizePortalPrefix(env.ALSHIVAL_PORTAL_PREFIX),
   resourceId |-> IF resourceEnv.found THEN JStr(resourceEnv.resourceId) ELSE JNull,
   enabled |-> JBool(TRUE),
   cloudLevel |->
     envCloudLevel(env.ALSHIVAL_CLOUD_LEVEL,
                   IF debugEnv THEN JNum(LEVEL_NAME_TO_NO.DEBUG)
                   ELSE JNum(LEVEL_NAME_TO_NO.INFO)),
   timeoutSeconds |-> JNum(5),
   verifySsl |-> JBool(TRUE),
   debug |-> JBool(debugEnv)]

\* Lines 166-183, given the parsed resource variable and the debug flag.
EnvConfig(env, resourceEnv, debugEnv) ==
  [username |-> OrElse(env.ALSHIVAL_USERNAME, JNull),
   resourceOwnerUsername |->
     IF resourceEnv.found THEN JStr(resourceEnv.resourceOwnerUsername) ELSE JNull,
   apiKey |-> OrElse(env.ALSHIVAL_API_KEY, JNull),
   baseUrl |->
     JStr(StripOneTrailingSlash(ToStr(
       IF resourceEnv.found THEN JStr(resourceEnv.baseUrl)
       ELSE OrElse(env.ALSHIVAL_BASE_URL, JStr(DEFAULT_BASE_URL))))),
   portalPrefix |->
     IF resourceEnv.found THEN JStr(resourceEnv.portalPrefix)
     ELSE normalizePortalPrefix(env.ALSHIVAL_PORTAL_PREFIX),
   resourceId |-> IF resourceEnv.found THEN JStr(resourceEnv.resourceId) ELSE JNull,
   enabled |-> JBool(TRUE),
   cloudLevel |->
     envCloudLevel(env.ALSHIVAL_CLOUD_LEVEL,
                   IF debugEnv THEN JNum(LEVEL_NAME_TO_NO.DEBUG)
                   ELSE JNum(LEVEL_NAME_TO_NO.INFO)),
   timeoutSeconds |-> JNum(5),
   verifySsl |-> JBool(TRUE),
   debug |-> JBool(debugEnv)]

\* err is "URIError" when parsing the resource variable throws: the module
\* then fails to load.
EnvOutcome(env, resourceEnv) ==
  [err |-> resourceEnv.err,
   cfg |-> EnvConfig(env, resourceEnv, envBool(env.ALSHIVAL_DEBUG, FALSE))]

buildClientConfigFromEnv(env) ==
  EnvOutcome(env, parseResourceReference(
                    OrElse(env.ALSHIVAL_RESOURCE, env.ALSHIVAL_RESOURCE_URL)))

(***************************************************************************)
(* configure(options) (src/src/client.js:188-273).  options is a function  *)
(* from the property names the caller wrote to their values.               *)
(***************************************************************************)
Has(options, key) == key \in DOMAIN options

Get(options, key) == IF key \in DOMAIN options THEN options[key] ELSE JUndef

\* hasOwnProperty(options, canonical) ? options[canonical] : options[snake]
Either(options, canonical, snake) ==
  IF Has(options, canonical) THEN options[canonical] ELSE Get(options, snake)

\* Lines 205-217 without the owner assignment of line 212.
StoreReferenceKeepingOwner(cfg, options, parsedResource) ==
  IF parsedResource.err # "none" THEN [err |-> parsedResource.err, cfg |-> cfg]
  ELSE IF parsedResource.found
    THEN [err |-> "none",
          cfg |-> [cfg EXCEPT
            !.baseUrl = IF Either(options, "baseUrl", "base_url") = JUndef
                          THEN JStr(parsedResource.baseUrl) ELSE @,
            !.portalPrefix = IF Either(options, "portalPrefix", "portal_prefix") = JUndef
                               THEN JStr(parsedResource.portalPrefix) ELSE @,
            !.resourceId = JStr(parsedResource.resourceId)]]
    ELSE [err |-> "none",
          cfg |-> [cfg EXCEPT !.resourceOwnerUsername = JNull, !.resourceId = JNull]]

\* Lines 204-217: what the parsed reference leaves in the configuration; the
\* exception of parseResourceReference leaves it as it was.
StoreReference(cfg, options, parsedResource) ==
  IF parsedResource.err # "none" THEN [err |-> parsedResource.err, cfg |-> cfg]
  ELSE IF parsedResource.found
    THEN [err |-> "none",
          cfg |-> [cfg EXCEPT
            !.baseUrl = IF Either(options, "baseUrl", "base_url") = JUndef
                          THEN JStr(parsedResource.baseUrl) ELSE @,
            !.portalPrefix = IF Either(options, "portalPrefix", "portal_prefix") = JUndef
                               THEN JStr(parsedResource.portalPrefix) ELSE @,
            !.resourceOwnerUsername = JStr(parsedResource.resourceOwnerUsername),
            !.resourceId = JStr(parsedResource.resourceId)]]
    ELSE [err |-> "none",
          cfg |-> [cfg EXCEPT !.resourceOwnerUsername = JNull, !.resourceId = JNull]]

\* Lines 203-218: the resource reference.
ApplyResource(cfg, options) ==
  IF Get(options, "resource") = JUndef THEN [err |-> "none", cfg |-> cfg]
  ELSE StoreReference(cfg, options, parseResourceReference(Get(options, "resource")))

\* The identity step as a replacement: username is assigned whether or not the
\* options carry it.
ApplyIdentityReplacing(cfg, options) ==
  LET username == Get(options, "username")
      apiKey == Either(options, "apiKey", "api_key")
      baseUrl == Either(options, "baseUrl", "base_url")
      portalPrefix == Either(options, "portalPrefix", "portal_prefix")
      enabled == Get(options, "enabled")
  IN [cfg EXCEPT
        !.username = username,
        !.apiKey = IF apiKey # JUndef THEN apiKey ELSE @,
        !.baseUrl = IF baseUrl # JUndef
                      THEN JStr(StripOneTrailingSlash(ToStr(baseUrl))) ELSE @,
        !.portalPrefix = IF portalPrefix # JUndef
                           THEN normalizePortalPrefix(portalPrefix) ELSE @,
        !.enabled = IF enabled # JUndef THEN JBool(Truthy(enabled)) ELSE @]

\* Lines 220-234: username, apiKey, baseUrl, portalPrefix, enabled.
ApplyIdentity(cfg, options) ==
  LET username == Get(options, "username")
      apiKey == Either(options, "apiKey", "api_key")
      baseUrl == Either(options, "baseUrl", "base_url")
      portalPrefix == Either(options, "portalPrefix", "portal_prefix")
      enabled == Get(options, "enabled")
  IN [cfg EXCEPT
        !.username = IF username # JUndef THEN username ELSE @,
        !.apiKey = IF apiKey # JUndef THEN apiKey ELSE @,
        !.baseUrl = IF baseUrl # JUndef
                      THEN JStr(StripOneTrailingSlash(ToStr(baseUrl))) ELSE @,
        !.portalPrefix = IF portalPrefix # JUndef
                           THEN normalizePortalPrefix(portalPrefix) ELSE @,
        !.enabled = IF enabled # JUndef THEN JBool(Truthy(enabled)) ELSE @]

\* Line 244: the assignment of the coerced level, unless coercion threw.
StoreCloudLevel(cfg, coerced) ==
  IF coerced.err # "none" THEN [err |-> coerced.err, cfg |-> cfg]
  ELSE [err |-> "none", cfg |-> [cfg EXCEPT !.cloudLevel = coerced.v]]

\* Lines 236-248: the cloud level, explicit or bumped by debug:true.
ApplyCloudLevel(cfg, options) ==
  IF Has(options, "cloudLevel") \/ Has(options, "cloud_level")
    THEN StoreCloudLevel(cfg, coerceCloudLevel(Either(options, "cloudLevel", "cloud_level")))
  ELSE IF Get(options, "debug") = JBool(TRUE) /\ cfg.cloudLevel # JNull
    THEN [err |-> "none", cfg |-> [cfg EXCEPT !.cloudLevel = JNum(LEVEL_NAME_TO_NO.DEBUG)]]
  ELSE [err |-> "none", cfg |-> cfg]

\* Lines 250-258: timeoutSeconds, verifySsl, debug.
ApplyTransportOptions(cfg, options) ==
  LET timeoutSeconds == Either(options, "timeoutSeconds", "timeout_seconds")
      verifySsl == Either(options, "verifySsl", "verify_ssl")
      debug == Get(options, "debug")
  IN [cfg EXCEPT
        !.timeoutSeconds = IF timeoutSeconds # JUndef /\ IsNum(timeoutSeconds)
                             THEN timeoutSeconds ELSE @,
        !.verifySsl = IF verifySsl # JUndef THEN JBool(Truthy(verifySsl)) ELSE @,
        !.debug = IF debug # JUndef THEN JBool(Truthy(debug)) ELSE @]

\* Lines 250-258 run unless the cloud level step threw.
AfterCloudLevel(afterLevel, options) ==
  IF afterLevel.err # "none" THEN afterLevel
  ELSE [err |-> "none", cfg |-> ApplyTransportOptions(afterLevel.cfg, options)]

\* Lines 220-258 run unless the resource step threw.
AfterResource(afterResource, options) ==
  IF afterResource.err # "none" THEN afterResource
  ELSE AfterCloudLevel(
         ApplyCloudLevel(ApplyIdentity(afterResource.cfg, options), options), options)

\* The whole call: the configuration it leaves and the error it throws, if any.
\* An exception leaves the assignments made before it in place.
configure(cfg, options) == AfterResource(ApplyResource(cfg, options), options)

(***************************************************************************)
(* Endpoint of a resource (src/src/client.js:275-313)                      *)
(***************************************************************************)
\* The prefix with `if (cfg.portalPrefix)` for the test of line 277: an empty
\* prefix counts as none.
resolvedPortalPrefixTruthy(cfg) ==
  IF Truthy(cfg.portalPrefix) THEN ToStr(cfg.portalPrefix)
  ELSE LET parsed == ParseURL(ToStr(cfg.baseUrl)) IN
    IF ~parsed.ok THEN << >>
    ELSE LET pathPrefix == normalizePortalPrefix(JStr(parsed.pathname)) IN
      IF Truthy(pathPrefix) THEN ToStr(pathPrefix)
      ELSE IF parsed.host \in {"alshival.ai", "www.alshival.ai"}
        THEN <<"/", "DevTools">>
      ELSE << >>

resolvedPortalPrefix(cfg) ==
  IF cfg.portalPrefix # JNull /\ cfg.portalPrefix # JUndef THEN ToStr(cfg.portalPrefix)
  ELSE LET parsed == ParseURL(ToStr(cfg.baseUrl)) IN
    IF ~parsed.ok THEN << >>
    ELSE LET pathPrefix == normalizePortalPrefix(JStr(parsed.pathname)) IN
      IF Truthy(pathPrefix) THEN ToStr(pathPrefix)
      ELSE IF parsed.host \in {"alshival.ai", "www.alshival.ai"}
        THEN <<"/", "DevTools">>
      ELSE << >>

\* The endpoint without the portal prefix.
buildResourceLogsEndpointNoPrefix(cfg, username, resourceId) ==
  LET parsed == ParseURL(ToStr(OrElse(cfg.baseUrl, JStr(DEFAULT_BASE_URL))))
      base == IF parsed.ok THEN <<parsed.protocol, "//", parsed.host>>
              ELSE DEFAULT_BASE_URL
      safeUser == encodeURIComponent(Trim(ToStr(OrElse(username, JStr(<< >>)))))
      safeResource == encodeURIComponent(Trim(ToStr(OrElse(resourceId, JStr(<< >>)))))
  IN base \o <<"/", "u", "/">> \o safeUser
       \o <<"/", "resources", "/">> \o safeResource \o <<"/", "logs", "/">>

buildResourceLogsEndpoint(cfg, username, resourceId) ==
  LET parsed == ParseURL(ToStr(OrElse(cfg.baseUrl, JStr(DEFAULT_BASE_URL))))
      base == IF parsed.ok THEN <<parsed.protocol, "//", parsed.host>>
              ELSE DEFAULT_BASE_URL
      portalPrefix == resolvedPortalPrefix(cfg)
      safeUser == encodeURIComponent(Trim(ToStr(OrElse(username, JStr(<< >>)))))
      safeResource == encodeURIComponent(Trim(ToStr(OrElse(resourceId, JStr(<< >>)))))
  IN base \o portalPrefix \o <<"/", "u", "/">> \o safeUser
       \o <<"/", "resources", "/">> \o safeResource \o <<"/", "logs", "/">>

\* setEnabled(enabled)
setEnabled(cfg, enabled) == [cfg EXCEPT !.enabled = JBool(Truthy(enabled))]

(***************************************************************************)
(* The MCP tool descriptor (src/src/mcp-tools.js).  Headers carry their    *)
(* default names; a header that is not set is <<"undefined">>.             *)
(***************************************************************************)
\* clean(value): String(value || '').trim()
clean(value) == Trim(ToStr(OrElse(value, JStr(<< >>))))

\* pick(...values): the first value that is not blank once cleaned, '' when none
RECURSIVE pick(_)
pick(values) ==
  IF values = << >> THEN << >>
  ELSE IF clean(Head(values)) # << >> THEN clean(Head(values))
  ELSE pick(Tail(values))

\* resolvedIdentity({apiKey, username}) under the environment env
resolvedIdentity(cfg, env, apiKey, username) ==
  [resolvedApiKey |-> pick(<<apiKey, cfg.apiKey, env.ALSHIVAL_API_KEY>>),
   resolvedUsername |-> pick(<<username, cfg.username, env.ALSHIVAL_USERNAME>>)]

\* buildHeaders: a header is set for a non-empty value only.
buildHeaders(identity) ==
  [x_api_key |-> IF identity.resolvedApiKey # << >>
                   THEN JStr(identity.resolvedApiKey) ELSE JUndef,
   x_user_username |-> IF identity.resolvedUsername # << >>
                         THEN JStr(identity.resolvedUsername) ELSE JUndef]

\* mcpTool() with no arguments, through buildTool
mcpTool(cfg, env) ==
  [server_label |-> "alshival-mcp",
   headers |-> buildHeaders(resolvedIdentity(cfg, env, JUndef, JUndef))]

\* MCPToolSpec.refresh / refreshMcp: the fields the descriptor `mcp` is left with
refreshMcp(cfg, env) == mcpTool(cfg, env)

(***************************************************************************)
(* Levels of records (src/unnamed/part_000:18-26, 75-106)                  *)
(***************************************************************************)
LEVEL_NO_TO_NAME ==
  (0 :> "NOTSET") @@ (10 :> "DEBUG") @@ (20 :> "INFO") @@ (30 :> "WARNING")
    @@ (40 :> "ERROR") @@ (45 :> "ALERT") @@ (50 :> "CRITICAL")

\* Returned(null), Returned(number) or Thrown("InvalidLevel")
normalizedLevelNo(level) == coerceLevel(level)

levelNameFromNo(levelNo) ==
  IF levelNo \in DOMAIN LEVEL_NO_TO_NAME THEN LEVEL_NO_TO_NAME[levelNo]
  ELSE IF levelNo >= LEVEL_NAME_TO_NO.CRITICAL THEN "CRITICAL"
  ELSE IF levelNo >= ALERT_LEVEL THEN "ALERT"
  ELSE IF levelNo >= LEVEL_NAME_TO_NO.ERROR THEN "ERROR"
  ELSE IF levelNo >= LEVEL_NAME_TO_NO.WARNING THEN "WARNING"
  ELSE IF levelNo >= LEVEL_NAME_TO_NO.INFO THEN "INFO"
  ELSE IF levelNo >= LEVEL_NAME_TO_NO.DEBUG THEN "DEBUG"
  ELSE "NOTSET"

(***************************************************************************)
(* CloudLogHandler (src/unnamed/part_000:161-287).  A handler is a record  *)
(* of its resourceId, its cloudLevel override and its _inEmit flag; a log   *)
(* record carries levelno, levelname and alshival_resource_id.             *)
(***************************************************************************)
CloudLogHandler(resourceId, cloudLevel) ==
  [resourceId |-> resourceId, cloudLevel |-> cloudLevel, inEmit |-> FALSE]

\* The forwarding decision without the username condition of lines 190-192.
shouldForwardAnonymous(cfg, handler, record) ==
  IF ~Truthy(cfg.enabled) THEN FALSE
  ELSE IF cfg.cloudLevel = JNull THEN FALSE
  ELSE LET minLevel == IF handler.cloudLevel # JNull THEN handler.cloudLevel
                       ELSE cfg.cloudLevel
       IN
  IF record.levelno < minLevel[2] THEN FALSE
  ELSE IF ~Truthy(cfg.apiKey) THEN FALSE
  ELSE TRUE

shouldForward(cfg, handler, record) ==
  IF ~Truthy(cfg.enabled) THEN FALSE
  ELSE IF cfg.cloudLevel = JNull THEN FALSE
  ELSE LET minLevel == IF handler.cloudLevel # JNull THEN handler.cloudLevel
                       ELSE cfg.cloudLevel
       IN
  IF record.levelno < minLevel[2] THEN FALSE
  ELSE IF ~Truthy(cfg.apiKey) THEN FALSE
  ELSE IF ~Truthy(cfg.username) THEN FALSE
  ELSE TRUE

\* The first candidate that is truthy and not blank, trimmed; << >> when none.
RECURSIVE FirstResourceId(_)
FirstResourceId(candidates) ==
  IF candidates = << >> THEN << >>
  ELSE LET value == Head(candidates) IN
    IF Truthy(value) /\ Trim(ToStr(value)) # << >> THEN Trim(ToStr(value))
    ELSE FirstResourceId(Tail(candidates))

\* The candidates in another order: the config before the record.
resolvedResourceIdConfigFirst(cfg, handler, record) ==
  FirstResourceId(<<handler.resourceId, cfg.resourceId, record.alshival_resource_id>>)

resolvedResourceId(cfg, handler, record) ==
  FirstResourceId(<<handler.resourceId, record.alshival_resource_id, cfg.resourceId>>)

\* debug(msg): whether the diagnostic line is written to stderr.
debug(cfg) == Truthy(cfg.debug)

\* The request with the level name as the record carries it, not lowercased.
TransportRequestRawLevel(cfg, record, resolvedResource) ==
  LET resourceOwner ==
        Trim(ToStr(OrElse(OrElse(cfg.resourceOwnerUsername, cfg.username), JStr(<< >>))))
  IN [url |-> buildResourceLogsEndpoint(cfg, JStr(resourceOwner), JStr(resolvedResource)),
      level |-> record.levelname,
      resource_id |-> resolvedResource,
      x_api_key |-> OrElse(cfg.apiKey, JStr(<< >>)),
      x_user_username |-> IF Truthy(cfg.username) THEN cfg.username ELSE JUndef]

\* What emit hands to the transport (lines 230-262, 265-271): the endpoint,
\* logs[0].level and resource_id of the payload, and the two identity headers
\* (<<"undefined">> for a header that is not set).
TransportRequest(cfg, record, resolvedResource) ==
  LET resourceOwner ==
        Trim(ToStr(OrElse(OrElse(cfg.resourceOwnerUsername, cfg.username), JStr(<< >>))))
  IN [url |-> buildResourceLogsEndpoint(cfg, JStr(resourceOwner), JStr(resolvedResource)),
      level |-> LowerTok(record.levelname),
      resource_id |-> resolvedResource,
      x_api_key |-> OrElse(cfg.apiKey, JStr(<< >>)),
      x_user_username |-> IF Truthy(cfg.username) THEN cfg.username ELSE JUndef]

NoRequest ==
  [url |-> << >>, level |-> "", resource_id |-> << >>, x_api_key |-> JUndef,
   x_user_username |-> JUndef]

\* One event per call of CloudLogHandler.emit: the handler's index, whether
\* the call found the handler already in emit, the transport calls it made
\* and with what, whether the transport threw, whether a diagnostic line was
\* written.
EmitEvent(i) ==
  [handler |-> i, busy |-> FALSE, calls |-> 0, request |-> NoRequest,
   threw |-> FALSE, diag |-> FALSE]

\* A run of a logging call: the handlers with their flags, the events so far,
\* the posts left in flight, and the exception propagating, if any.
StartRun(hs) == [hs |-> hs, trace |-> << >>, posts |-> 0, err |-> "none"]

RECURSIVE EmitFrom(_, _, _, _, _)

\* AlshivalLogger.emit (lines 363-382) of the module's logger `log`, built at
\* line 619 with the default floor DEBUG and no local logger.
AlshivalLogger_emit(cfg, run, record, t) ==
  IF record.levelno < LEVEL_NAME_TO_NO.DEBUG THEN run
  ELSE EmitFrom(cfg, run, 1, record, t)

\* The transport call of lines 264-272 seen from emit: inside is the run as
\* the transport function left it; the call is recorded, and either throws or
\* leaves a post in flight.
TransportCall(inside, i, request, t) ==
  LET threw == inside.err # "none" \/ t.throws IN
  [inside EXCEPT
     !.trace = Append(@, [EmitEvent(i) EXCEPT
                            !.calls = 1, !.request = request, !.threw = threw]),
     !.err = IF threw THEN "Error" ELSE "none",
     !.posts = IF threw THEN @ ELSE @ + 1]

\* The try block of CloudLogHandler.emit (lines 218-280).  The transport t,
\* when called, first logs the record again if t.reenters, then throws if
\* t.throws and returns a promise otherwise.
EmitTry(cfg, run, i, record, t) ==
  LET handler == run.hs[i] IN
  IF ~shouldForward(cfg, handler, record)
    THEN [run EXCEPT !.trace = Append(@, EmitEvent(i))]
  ELSE LET resolvedResource == resolvedResourceId(cfg, handler, record) IN
  IF resolvedResource = << >>
    THEN [run EXCEPT !.trace = Append(@, [EmitEvent(i) EXCEPT !.diag = debug(cfg)])]
  ELSE TransportCall(
         IF t.reenters THEN AlshivalLogger_emit(cfg, run, record, t) ELSE run,
         i, TransportRequest(cfg, record, resolvedResource), t)

\* emit without its catch clause: the exception goes on to the caller.
EmitCatchRethrowing(cfg, body) == body

\* The catch clause (lines 281-283): the exception ends here, with a
\* diagnostic line when config.debug is set.
EmitCatch(cfg, body) ==
  IF body.err = "none" THEN body
  ELSE [body EXCEPT !.err = "none", !.trace[Len(body.trace)].diag = debug(cfg)]

\* emit without its finally clause: _inEmit stays as the try block left it.
EmitFinallyKeeping(run, i) == run

\* The finally clause (lines 283-285).
EmitFinally(run, i) == [run EXCEPT !.hs[i].inEmit = FALSE]

\* CloudLogHandler.emit (lines 211-287) on handler i.
CloudLogHandler_emit(cfg, run, i, record, t) ==
  IF run.hs[i].inEmit
    THEN [run EXCEPT !.trace = Append(@, [EmitEvent(i) EXCEPT !.busy = TRUE])]
  ELSE EmitFinally(
         EmitCatch(cfg, EmitTry(cfg, [run EXCEPT !.hs[i].inEmit = TRUE], i, record, t)),
         i)

\* for (const currentHandler of this.handlers) currentHandler.emit(record)
EmitFrom(cfg, run, i, record, t) ==
  IF i > Len(run.hs) \/ run.err # "none" THEN run
  ELSE EmitFrom(cfg, CloudLogHandler_emit(cfg, run, i, record, t), i + 1, record, t)

\* buildRecord (lines 318-339): alshival_resource_id is set from a truthy
\* resourceId option only.
buildRecord(levelNo, levelName, resourceId) ==
  [levelno |-> levelNo, levelname |-> levelName,
   alshival_resource_id |-> IF Truthy(resourceId) THEN resourceId ELSE JUndef]

\* The .then/.catch chain on the transport's promise (lines 264-280): whether
\* a diagnostic line is written when the promise settles, and whether a
\* rejection is left unhandled.  outcome is "ok" (status below 400), "status"
\* (400 or more) or "rejected" (network error, timeout).
PromiseChain(cfg, outcome) ==
  LET thenDiag == outcome = "status" /\ Truthy(cfg.debug) /\ debug(cfg)
      catchDiag == outcome = "rejected" /\ debug(cfg)
  IN [diag |-> thenDiag \/ catchDiag, unhandled |-> FALSE]

\* Lines 528-529 alone: the handler is pushed whatever the list holds.
dedupeAddHandlerAlways(handlers, handler) == Append(handlers, handler)

\* dedupeAddHandler (lines 514-530) on a list of cloud handlers: the list it
\* leaves.
dedupeAddHandler(handlers, handler) ==
  LET same == {i \in 1..Len(handlers) : handlers[i].resourceId = handler.resourceId}
  IN IF same # {}
       THEN LET i == CHOOSE x \in same : \A y \in same : x <= y IN
            IF handler.cloudLevel # JNull
              THEN [handlers EXCEPT ![i].cloudLevel = handler.cloudLevel]
              ELSE handlers
       ELSE Append(handlers, handler)

\* attach(target, {cloudLevel, resourceId}) on an AlshivalLogger (lines
\* 481-492): the handler list it leaves, or the error normalizedLevelNo throws.
attach(handlers, cloudLevel, resourceId) ==
  LET normalizedCloudLevel ==
        IF cloudLevel = JUndef THEN Returned(JNull) ELSE normalizedLevelNo(cloudLevel)
  IN IF normalizedCloudLevel.err # "none"
       THEN [err |-> normalizedCloudLevel.err, handlers |-> handlers]
       ELSE [err |-> "none",
             handlers |-> dedupeAddHandler(handlers,
                            CloudLogHandler(resourceId, normalizedCloudLevel.v))]

\* log.handler({cloudLevel, resourceId}) (lines 452-460): the handler it
\* returns, as a list of one, or the error normalizedLevelNo throws.
AlshivalLogger_handler(cloudLevel, resourceId) ==
  LET normalizedCloudLevel ==
        IF cloudLevel = JUndef THEN Returned(JNull) ELSE normalizedLevelNo(cloudLevel)
  IN [err |-> normalizedCloudLevel.err,
      minLevel |-> LEVEL_NAME_TO_NO.NOTSET,
      handlers |-> IF normalizedCloudLevel.err = "none"
                     THEN <<CloudLogHandler(resourceId, normalizedCloudLevel.v)>>
                     ELSE << >>]

\* log.getLogger(name, {cloudLevel, resourceId}) (lines 462-479, 290-301) with
\* the default level INFO: the floor and the handlers of the logger it returns.
getLogger(cloudLevel, resourceId) ==
  LET resolvedMinLevel == LEVEL_NAME_TO_NO.INFO
      resolvedCloud ==
        IF cloudLevel # JUndef THEN normalizedLevelNo(cloudLevel)
        ELSE Returned(JNum(resolvedMinLevel))
  IN [err |-> resolvedCloud.err,
      minLevel |-> resolvedMinLevel,
      handlers |-> IF resolvedCloud.err = "none"
                     THEN dedupeAddHandler(<< >>, CloudLogHandler(resourceId, resolvedCloud.v))
                     ELSE << >>]

\* Before the application has called handler() or getLogger().
NothingMade == [via |-> "none", minLevel |-> 0, handlers |-> << >>, given |-> << >>]

(***************************************************************************)
(* Foreign loggers (src/unnamed/part_000:494-613).  A foreign logger is a  *)
(* record of the handlers and the patched flag of its attach state and of  *)
(* the number of wrappers around each of its methods.                      *)
(***************************************************************************)
\* A logger that attach has not seen: target[ATTACH_STATE] is not set
\* (line 498) and its methods are its own.
FreshTarget == [handlers |-> << >>, patched |-> FALSE, wraps |-> 0]

\* patchExternalLogger (lines 532-559): every method of the logger is replaced
\* by a wrapper around what the logger had.
patchExternalLogger(target) == [target EXCEPT !.wraps = @ + 1]

\* Lines 504-507 without the test of state.patched.
EnsurePatchedAgain(target) == [patchExternalLogger(target) EXCEPT !.patched = TRUE]

\* Lines 504-507: the logger is patched on the first attach only.
EnsurePatched(target) ==
  IF ~target.patched THEN [patchExternalLogger(target) EXCEPT !.patched = TRUE]
  ELSE target

\* Lines 488, 498-510, given the override level line 487 computed.
AttachHandlerTo(target, normalizedCloudLevel, resourceId) ==
  IF normalizedCloudLevel.err # "none"
    THEN [err |-> normalizedCloudLevel.err, target |-> target]
    ELSE [err |-> "none",
          target |-> [EnsurePatched(target) EXCEPT
                        !.handlers = dedupeAddHandler(@,
                                       CloudLogHandler(resourceId, normalizedCloudLevel.v))]]

\* attach(target, {cloudLevel, resourceId}) on a logger object that is not an
\* AlshivalLogger (lines 481-511).
attachForeign(target, cloudLevel, resourceId) ==
  AttachHandlerTo(target,
                  IF cloudLevel = JUndef THEN Returned(JNull)
                  ELSE normalizedLevelNo(cloudLevel),
                  resourceId)

\* The wrapped methods and the levels of their records (lines 533, 585-593).
WrappedMethods == {"debug", "info", "warn", "warning", "error", "critical", "log"}

methodToLevel ==
  [debug |-> LEVEL_NAME_TO_NO.DEBUG, info |-> LEVEL_NAME_TO_NO.INFO,
   warn |-> LEVEL_NAME_TO_NO.WARNING, warning |-> LEVEL_NAME_TO_NO.WARNING,
   error |-> LEVEL_NAME_TO_NO.ERROR, critical |-> LEVEL_NAME_TO_NO.CRITICAL]

\* Lines 598-612 for a numeric level: the record, or none for a null level.
ExternalRecord(coerced) ==
  IF coerced.err # "none" THEN [err |-> coerced.err, some |-> FALSE, record |-> << >>]
  ELSE IF coerced.v = JNull THEN [err |-> "none", some |-> FALSE, record |-> << >>]
  ELSE [err |-> "none", some |-> TRUE,
        record |-> [levelno |-> coerced.v[2],
                    levelname |-> levelNameFromNo(coerced.v[2]),
                    alshival_resource_id |-> JUndef]]

\* buildExternalRecord(logger, method, args) (lines 561-613): args are the
\* arguments of the call; err is the exception normalizedLevelNo throws.
buildExternalRecord(method, args) ==
  IF method = "log"
    THEN IF Len(args) = 0 THEN [err |-> "none", some |-> FALSE, record |-> << >>]
         ELSE IF IsNum(args[1]) \/ IsStr(args[1]) \/ IsBool(args[1])
           THEN ExternalRecord(normalizedLevelNo(args[1]))
         ELSE ExternalRecord(Returned(JNum(LEVEL_NAME_TO_NO.INFO)))
    ELSE ExternalRecord(Returned(JNum(methodToLevel[method])))

\* The finally block of the wrapper (lines 545-554): the record is built and
\* handed to every handler of the attach state; what this throws ends in the
\* catch clause.
DispatchExternal(cfg, run, built, t) ==
  IF built.err # "none" \/ ~built.some THEN run
  ELSE [EmitFrom(cfg, run, 1, built.record, t) EXCEPT !.err = "none"]

\* One call of logger[method](...args) (lines 540-557).  original is what the
\* logger's own method does: it throws, or returns original.value.  With no
\* wrapper the method is the logger's own; with one wrapper it runs inside
\* try/finally; a wrapper around a wrapper finds itself in
\* state.original[method] (line 539) and recurses until the stack overflows,
\* the logger's own method being lost.
wrappedLoggerMethod(cfg, target, method, args, original, t) ==
  [originals |-> IF target.wraps > 1 THEN 0 ELSE 1,
   err |-> IF target.wraps > 1 THEN "RangeError"
           ELSE IF original.throws THEN "OriginalError"
           ELSE "none",
   value |-> IF target.wraps > 1 \/ original.throws THEN JUndef ELSE original.value,
   run |-> IF target.wraps = 0 THEN StartRun(target.handlers)
           ELSE DispatchExternal(cfg, StartRun(target.handlers),
                                 buildExternalRecord(method, args), t)]

(***************************************************************************)
(* Inputs                                                                  *)
(***************************************************************************)
MaxConfigure == 1

S(t) == JStr(<<t>>)

ResourceDev ==
  <<"https:", "//", "alshival.dev", "/", "u", "/", "owner", "/", "resources", "/", "rid", "/">>

ResourceAiLogs ==
  <<"https:", "//", "Alshival.AI", "/", "DevTools", "/", "u", "/", "team", "%20", "a",
    "/", "resources", "/", "r2", "/", "Logs", "/">>

ResourceNoPattern == <<"https:", "//", "alshival.dev", "/", "resources", "/", "rid">>

ResourceBlankOwner ==
  <<"https:", "//", "alshival.dev", "/", "u", "/", "%20", "/", "resources", "/", "rid">>

ResourceMalformed ==
  <<"https:", "//", "alshival.dev", "/", "u", "/", "%zz", "/", "resources", "/", "rid">>

\* The values a caller passes under each property name of configure's options.
OptionValues ==
  [username |-> {S("viewer"), JStr(<< >>)},
   resource |-> {JStr(ResourceAiLogs), JStr(ResourceDev), JStr(ResourceNoPattern),
                 JStr(ResourceBlankOwner), JStr(ResourceMalformed)},
   apiKey |-> {S("k"), JStr(<< >>)},
   api_key |-> {S("k2")},
   baseUrl |-> {JStr(<<"https:", "//", "alshival.ai", "/">>), S("not a url")},
   base_url |-> {JStr(<<"https:", "//", "h.example", "/", "portal">>)},
   portalPrefix |-> {JNull, JStr(<< >>), JStr(<<"DevTools", "/">>)},
   portal_prefix |-> {JStr(<<"/", "x">>)},
   enabled |-> {JBool(FALSE), JBool(TRUE)},
   cloudLevel |-> {S("ERROR"), JStr(<<" ", "none", " ">>), S("WARN"), JBool(FALSE),
                   JNum(10), S("off")},
   cloud_level |-> {S("INFO")},
   debug |-> {JBool(TRUE), JBool(FALSE)},
   timeoutSeconds |-> {JNum(9), S("9")},
   timeout_seconds |-> {JNum(7)},
   verifySsl |-> {JBool(FALSE)},
   verify_ssl |-> {JNum(0)}]

RECURSIVE OptionsOver(_)
OptionsOver(K) ==
  IF K = {} THEN {<< >>}
  ELSE LET k == CHOOSE x \in K : TRUE IN
    {(k :> v) @@ f : v \in OptionValues[k], f \in OptionsOver(K \ {k})}

\* The property names configure reads together: every options object over the
\* names of one group is an input.
OptionGroups ==
  {{"username", "apiKey", "api_key", "enabled"},
   {"username", "apiKey", "cloudLevel"},
   {"resource", "baseUrl", "base_url", "portalPrefix"},
   {"resource", "portalPrefix", "portal_prefix"},
   {"resource", "debug"},
   {"resource", "cloudLevel"},
   {"cloudLevel", "cloud_level", "debug", "enabled"},
   {"timeoutSeconds", "timeout_seconds", "verifySsl", "verify_ssl"}}

Patches == UNION {OptionsOver(K) : K \in UNION {SUBSET G : G \in OptionGroups}}

Unset == JUndef

\* The environments the process is started in.
BootEnvs ==
  {[ALSHIVAL_RESOURCE |-> r, ALSHIVAL_RESOURCE_URL |-> Unset, ALSHIVAL_DEBUG |-> d,
    ALSHIVAL_BASE_URL |-> Unset, ALSHIVAL_PORTAL_PREFIX |-> Unset,
    ALSHIVAL_USERNAME |-> id[1], ALSHIVAL_API_KEY |-> id[2],
    ALSHIVAL_CLOUD_LEVEL |-> c] :
     r \in {Unset, JStr(ResourceDev)},
     d \in {Unset},
     id \in {<<Unset, Unset>>, <<S("viewer"), S("k")>>},
     c \in {Unset, S("NONE")}}

NoEnv ==
  [ALSHIVAL_RESOURCE |-> Unset, ALSHIVAL_RESOURCE_URL |-> Unset, ALSHIVAL_DEBUG |-> Unset,
   ALSHIVAL_BASE_URL |-> Unset, ALSHIVAL_PORTAL_PREFIX |-> Unset,
   ALSHIVAL_USERNAME |-> Unset, ALSHIVAL_API_KEY |-> Unset,
   ALSHIVAL_CLOUD_LEVEL |-> Unset]

Identified == [NoEnv EXCEPT !.ALSHIVAL_USERNAME = S("viewer"), !.ALSHIVAL_API_KEY = S("k")]

\* The environments of the processes that log records: nothing set; an
\* identity and a resource of one's own; a shared resource behind a portal
\* prefix, with debug on; an identity on the .ai host with no resource; cloud
\* forwarding switched off; a base URL that is no URL, with an explicit prefix.
LoggingEnvs ==
  {NoEnv,
   [Identified EXCEPT !.ALSHIVAL_RESOURCE = JStr(ResourceDev)],
   [Identified EXCEPT !.ALSHIVAL_RESOURCE_URL = JStr(ResourceAiLogs),
                      !.ALSHIVAL_DEBUG = S("true")],
   [Identified EXCEPT !.ALSHIVAL_BASE_URL = JStr(<<"https:", "//", "www.alshival.ai", "/">>),
                      !.ALSHIVAL_CLOUD_LEVEL = S("error")],
   [Identified EXCEPT !.ALSHIVAL_RESOURCE = JStr(ResourceDev),
                      !.ALSHIVAL_CLOUD_LEVEL = S("NONE")],
   [Identified EXCEPT !.ALSHIVAL_BASE_URL = S("not a url"),
                      !.ALSHIVAL_PORTAL_PREFIX = JStr(<<"x", "/">>),
                      !.ALSHIVAL_DEBUG = S("1")]}

\* The environments buildClientConfigFromEnv is called under: a resource in
\* either variable (parseable, without the pattern, with a malformed escape),
\* a base URL, a portal prefix, the debug flag and the cloud level.
EnvResources ==
  {<<Unset, Unset>>, <<JStr(ResourceDev), Unset>>, <<Unset, JStr(ResourceAiLogs)>>,
   <<JStr(<< >>), JStr(ResourceDev)>>, <<JStr(ResourceNoPattern), Unset>>,
   <<JStr(ResourceMalformed), Unset>>}

EnvBaseUrls == {Unset, JStr(<< >>), JStr(<<"https:", "//", "h.example", "/">>)}

EnvPortalPrefixes == {Unset, JStr(<<"x", "/">>)}

EnvDebugFlags == {Unset, S("true"), JStr(<<" ", "ON", " ">>), S("0")}

EnvCloudLevels ==
  {Unset, JStr(<< >>), JStr(<<" ">>), S("false"), S("none"), JStr(<<" ", "NONE", " ">>),
   S("error"), S("DEBUG"), S("CRITICAL"), S("WARN")}

CallEnvs ==
  {[NoEnv EXCEPT !.ALSHIVAL_RESOURCE = r[1], !.ALSHIVAL_RESOURCE_URL = r[2],
                 !.ALSHIVAL_BASE_URL = b, !.ALSHIVAL_PORTAL_PREFIX = p,
                 !.ALSHIVAL_DEBUG = d, !.ALSHIVAL_CLOUD_LEVEL = c] :
     r \in EnvResources, b \in EnvBaseUrls, p \in EnvPortalPrefixes,
     d \in EnvDebugFlags, c \in EnvCloudLevels}

\* The arguments of the calls of buildResourceLogsEndpoint.
EndpointUsers == {S("sam"), JNull}

EndpointResources == {S("abc-123")}

\* The options of the configure calls made while records are being logged.
RuntimePatches ==
  {("cloudLevel" :> S("NONE")), ("debug" :> JBool(TRUE)), ("debug" :> JBool(FALSE)),
   ("username" :> JStr(<< >>)), ("username" :> JStr(<<" ", "view", " ", "er">>)),
   ("apiKey" :> JStr(<< >>)), ("resource" :> JNull)}

\* The level methods of the logger and their fixed levels (lines 394-426).
MethodLevels ==
  [debug |-> LEVEL_NAME_TO_NO.DEBUG, info |-> LEVEL_NAME_TO_NO.INFO,
   warning |-> LEVEL_NAME_TO_NO.WARNING, error |-> LEVEL_NAME_TO_NO.ERROR,
   critical |-> LEVEL_NAME_TO_NO.CRITICAL, alert |-> ALERT_LEVEL]

\* The calls made: three of the level methods, and log(level) with a custom
\* level.
Methods == {"debug", "error", "alert"}

LogLevels == {JNum(42)}

\* The resourceId option of a logging call: absent, padded, blank.
CallResourceIds == {JUndef, JStr(<<" ", "percall", " ">>), JStr(<<" ">>)}

\* What the installed transport does when called.
Transports == [throws : BOOLEAN, reenters : BOOLEAN]

\* How a post ends.
Outcomes == {"ok", "status", "rejected"}

\* The handlers attached at run time.
AttachResourceIds == {JNull, S("bound")}

AttachCloudLevels == {JUndef, S("ERROR"), S("none")}

MaxPending == 4

\* The attach calls made on one logger after another: no override, two
\* override levels and a disable token, with and without a bound resourceId.
OverrideLevels == {JUndef, S("ERROR"), S("DEBUG"), S("off")}

\* The calls made on the application's logger: a level method or log, whose
\* first argument is a level, a message or missing.
ForeignMethods == {"info", "error", "log"}

ForeignArgs(method) ==
  IF method = "log"
    THEN {<< >>, <<S("msg")>>, <<JNum(40), S("msg")>>, <<JBool(TRUE), S("msg")>>,
          <<S("off"), S("msg")>>, <<JNull, S("msg")>>}
    ELSE {<<S("msg")>>}

\* What the logger's own method does.
Originals == {[throws |-> FALSE, value |-> S("r")], [throws |-> TRUE, value |-> JUndef]}

\* The spellings of the level names and disable tokens of the documentation:
\* the token, and the way a caller writes it in lower case.
LevelSpellings ==
  {<<"NONE", "none">>, <<"NULL", "null">>, <<"FALSE", "false">>, <<"OFF", "off">>,
   <<"DISABLE", "disable">>, <<"DISABLED", "disabled">>,
   <<"WARN", "warn">>, <<"WARNING", "warning">>, <<"FATAL", "fatal">>,
   <<"CRITICAL", "critical">>, <<"ALERTS", "alerts">>, <<"ALERT", "alert">>,
   <<"ERROR", "error">>, <<"INFO", "info">>, <<"DEBUG", "debug">>,
   <<"NOTSET", "notset">>}

\* The token as it is, in lower case, and in lower case between blanks.
SpellingsOf(p) == {S(p[1]), S(p[2]), JStr(<<" ", p[2], " ">>)}

\* The levels coerceLevel is called with: null, undefined, the booleans, the
\* spellings above, texts that name no level, and numbers: integers, 45.9,
\* 0.5, -1.5, NaN and the infinities.
CoerceInputs ==
  {JNull, JUndef, JBool(FALSE), JBool(TRUE)}
    \cup UNION {SpellingsOf(p) : p \in LevelSpellings}
    \cup {S("bogus"), S("true"), S("40"), JStr(<< >>), JStr(<<" ">>)}
    \cup {JNum(0), JNum(40), JNum(42), JTenths(459), JTenths(5), JTenths(-15),
          JNaN, JInfinity, JNegInfinity}

\* The cloudLevel option of handler(), getLogger() and attach(): absent, the
\* disable tokens of the documentation, a level, and a text that is no level.
HandlerLevels ==
  {JUndef, JBool(FALSE), S("none"), S("off"), S("disabled"), S("ERROR"), S("bogus")}

\* A transport that does not log.
PlainTransports == {t \in Transports : ~t.reenters}

(***************************************************************************)
(* State                                                                   *)
(***************************************************************************)
VARIABLES
  config,      \* _config, the process-wide configuration record
  handlers,    \* log.handlers, the cloud handlers of the module's logger
  pending,     \* posts handed to the transport and not settled yet
  nConfigure,  \* configuration calls made so far
  processEnv,  \* process.env, as the process was started
  mcp,         \* the cached MCP descriptor `mcp` (src/src/mcp-tools.js:127)
  foreign,     \* a logger object of the application that is not an AlshivalLogger
  made,        \* what the application last obtained from handler() or getLogger(),
               \* and the cloudLevel option each of its handlers was created with
  ev           \* the operation that has just returned: its inputs and what
               \* it did; "idle" once the caller has moved on

vars == <<config, handlers, pending, nConfigure, processEnv, mcp, foreign, made, ev>>

\* The module's logger starts with one handler without resource or level
\* (src/unnamed/part_000:290-301, 619).
InitLogger ==
  /\ handlers = dedupeAddHandler(<< >>, CloudLogHandler(JNull, JNull))
  /\ pending = 0
  /\ nConfigure = 0
  /\ foreign = FreshTarget
  /\ made = NothingMade
  /\ ev = [op |-> "idle"]

Init ==
  /\ \E env \in BootEnvs :
       \E loaded \in {buildClientConfigFromEnv(env)} :
         /\ loaded.err = "none"
         /\ config = loaded.cfg
         /\ processEnv = env
         /\ mcp = refreshMcp(loaded.cfg, env)
  /\ InitLogger

InitLogging ==
  /\ \E env \in LoggingEnvs :
       \E loaded \in {buildClientConfigFromEnv(env)} :
         /\ loaded.err = "none"
         /\ config = loaded.cfg
         /\ processEnv = env
         /\ mcp = refreshMcp(loaded.cfg, env)
  /\ InitLogger

Idle == ev.op = "idle"

\* configure(options): one call, returning or throwing.
Configure(options) ==
  /\ Idle
  /\ nConfigure < MaxConfigure
  /\ \E r \in {configure(config, options)} :
       /\ config' = r.cfg
       /\ mcp' = IF r.err = "none" THEN refreshMcp(r.cfg, processEnv) ELSE mcp
       /\ ev' = [op |-> "configure", options |-> options, before |-> config,
                 err |-> r.err]
  /\ nConfigure' = nConfigure + 1
  /\ UNCHANGED <<handlers, pending, processEnv, foreign, made>>

\* setEnabled(enabled)
SetEnabled(enabled) ==
  /\ Idle
  /\ nConfigure < MaxConfigure
  /\ config' = setEnabled(config, enabled)
  /\ ev' = [op |-> "setEnabled", enabled |-> enabled]
  /\ nConfigure' = nConfigure + 1
  /\ UNCHANGED <<handlers, pending, processEnv, mcp, foreign, made>>

\* log.attach(log, {cloudLevel, resourceId})
Attach(cloudLevel, resourceId) ==
  /\ Idle
  /\ \E r \in {attach(handlers, cloudLevel, resourceId)} :
       /\ handlers' = r.handlers
       /\ handlers' # handlers
       /\ ev' = [op |-> "attach", err |-> r.err, target |-> "log",
                 cloudLevel |-> cloudLevel, resourceId |-> resourceId,
                 before |-> handlers]
  /\ UNCHANGED <<config, pending, nConfigure, processEnv, mcp, foreign, made>>

\* log.attach(target, {cloudLevel, resourceId}) on the application's logger.
AttachForeign(cloudLevel, resourceId) ==
  /\ Idle
  /\ \E r \in {attachForeign(foreign, cloudLevel, resourceId)} :
       /\ foreign' = r.target
       /\ foreign' # foreign
       /\ ev' = [op |-> "attach", err |-> r.err, target |-> "foreign",
                 cloudLevel |-> cloudLevel, resourceId |-> resourceId,
                 before |-> foreign.handlers]
  /\ UNCHANGED <<config, handlers, pending, nConfigure, processEnv, mcp, made>>

\* One call of a method of the application's logger, from the call to its
\* return or exception.
ForeignCall(method, args, original, t) ==
  /\ Idle
  /\ \E call \in {wrappedLoggerMethod(config, foreign, method, args, original, t)} :
       /\ pending + call.run.posts <= MaxPending
       /\ foreign' = [foreign EXCEPT !.handlers = call.run.hs]
       /\ pending' = pending + call.run.posts
       /\ ev' = [op |-> "foreign", method |-> method, args |-> args,
                 original |-> original, originals |-> call.originals,
                 err |-> call.err, value |-> call.value, trace |-> call.run.trace]
  /\ UNCHANGED <<config, handlers, nConfigure, processEnv, mcp, made>>

\* h = log.handler({cloudLevel, resourceId}): the application keeps h.
MakeHandler(cloudLevel, resourceId) ==
  /\ Idle
  /\ \E r \in {AlshivalLogger_handler(cloudLevel, resourceId)} :
       /\ made' = IF r.err # "none" THEN made
                  ELSE [via |-> "handler", minLevel |-> r.minLevel,
                        handlers |-> r.handlers, given |-> <<cloudLevel>>]
       /\ ev' = [op |-> "handler", err |-> r.err, cloudLevel |-> cloudLevel,
                 resourceId |-> resourceId]
  /\ UNCHANGED <<config, handlers, pending, nConfigure, processEnv, mcp, foreign>>

\* logger = log.getLogger(name, {cloudLevel, resourceId}): the application
\* keeps logger.
GetLogger(cloudLevel, resourceId) ==
  /\ Idle
  /\ \E r \in {getLogger(cloudLevel, resourceId)} :
       /\ made' = IF r.err # "none" THEN made
                  ELSE [via |-> "getLogger", minLevel |-> r.minLevel,
                        handlers |-> r.handlers, given |-> <<cloudLevel>>]
       /\ ev' = [op |-> "getLogger", err |-> r.err, cloudLevel |-> cloudLevel,
                 resourceId |-> resourceId]
  /\ UNCHANGED <<config, handlers, pending, nConfigure, processEnv, mcp, foreign>>

\* log.attach(logger, {cloudLevel, resourceId}) on the logger getLogger
\* returned: a handler that attach creates is noted with its option.
AttachMade(cloudLevel, resourceId) ==
  /\ Idle
  /\ made.via = "getLogger"
  /\ \E r \in {attach(made.handlers, cloudLevel, resourceId)} :
       /\ made' = [made EXCEPT
                     !.handlers = r.handlers,
                     !.given = IF Len(r.handlers) > Len(made.handlers)
                                 THEN Append(@, cloudLevel) ELSE @]
       /\ made' # made
       /\ ev' = [op |-> "attachMade", err |-> r.err, cloudLevel |-> cloudLevel,
                 resourceId |-> resourceId]
  /\ UNCHANGED <<config, handlers, pending, nConfigure, processEnv, mcp, foreign>>

\* logger.error(msg) on the logger getLogger returned (lines 363-382), or
\* h.emit(record) on the handler handler() returned, the transport being t.
MadeLog(method, t) ==
  /\ Idle
  /\ made.via # "none"
  /\ \E record \in {buildRecord(MethodLevels[method], UpperTok(method), JUndef)} :
       \E run \in {IF record.levelno < made.minLevel THEN StartRun(made.handlers)
                    ELSE EmitFrom(config, StartRun(made.handlers), 1, record, t)} :
         /\ pending + run.posts <= MaxPending
         /\ made' = [made EXCEPT !.handlers = run.hs]
         /\ pending' = pending + run.posts
         /\ ev' = [op |-> "madeLog", record |-> record, trace |-> run.trace,
                   err |-> run.err]
  /\ UNCHANGED <<config, handlers, nConfigure, processEnv, mcp, foreign>>

\* One logging call, from the caller's call to its return: the record is
\* built and emitted to every handler, the transport being t.
Emit(record, t) ==
  /\ Idle
  /\ \E run \in {AlshivalLogger_emit(config, StartRun(handlers), record, t)} :
      /\ pending + run.posts <= MaxPending
      /\ handlers' = run.hs
      /\ pending' = pending + run.posts
      /\ ev' = [op |-> "log", record |-> record, trace |-> run.trace, err |-> run.err]
      /\ UNCHANGED <<config, nConfigure, processEnv, mcp, foreign, made>>

\* log.debug(msg, {resourceId}), log.error(...), log.alert(...)
LogMethod(method, resourceId, t) ==
  Emit(buildRecord(MethodLevels[method], UpperTok(method), resourceId), t)

\* log.log(level, msg, {resourceId}) with a numeric level
LogLevel(level, resourceId, t) ==
  LET levelNo == normalizedLevelNo(level) IN
    /\ levelNo.err = "none"
    /\ levelNo.v # JNull
    /\ Emit(buildRecord(levelNo.v[2], levelNameFromNo(levelNo.v[2]), resourceId), t)

\* A post settles: the promise chain of emit runs.
Settle(outcome) ==
  /\ Idle
  /\ pending > 0
  /\ pending' = pending - 1
  /\ LET chain == PromiseChain(config, outcome) IN
       ev' = [op |-> "settle", outcome |-> outcome, diag |-> chain.diag,
              unhandled |-> chain.unhandled]
  /\ UNCHANGED <<config, handlers, nConfigure, processEnv, mcp, foreign, made>>

\* buildClientConfigFromEnv() called by the application while the environment
\* is env, as the tests do: the configuration object it returns, or the error
\* it throws.  _config is not touched.
BuildFromEnv(env) ==
  /\ Idle
  /\ \E built \in {buildClientConfigFromEnv(env)} :
       ev' = [op |-> "buildClientConfigFromEnv", env |-> env, err |-> built.err,
              cfg |-> built.cfg]
  /\ UNCHANGED <<config, handlers, pending, nConfigure, processEnv, mcp, foreign, made>>

\* coerceLevel(level) called by the application, and called again on what it
\* returned.
CoerceLevel(level) ==
  /\ Idle
  /\ \E r \in {coerceLevel(level)} :
       ev' = [op |-> "coerceLevel", level |-> level, err |-> r.err, v |-> r.v,
              again |-> IF r.err = "none" THEN coerceLevel(r.v) ELSE r]
  /\ UNCHANGED <<config, handlers, pending, nConfigure, processEnv, mcp, foreign, made>>

\* resolvedPortalPrefix() and buildResourceLogsEndpoint(username, resourceId)
\* called by the application on the current configuration.
Endpoint(username, resourceId) ==
  /\ Idle
  /\ ev' = [op |-> "endpoint", username |-> username, resourceId |-> resourceId,
            prefix |-> resolvedPortalPrefix(config),
            url |-> buildResourceLogsEndpoint(config, username, resourceId)]
  /\ UNCHANGED <<config, handlers, pending, nConfigure, processEnv, mcp, foreign, made>>

\* The caller moves on to its next operation.
Return ==
  /\ ~Idle
  /\ ev' = [op |-> "idle"]
  /\ UNCHANGED <<config, handlers, pending, nConfigure, processEnv, mcp, foreign, made>>

ConfigureNext ==
  \/ Idle /\ nConfigure < MaxConfigure /\ \E options \in Patches : Configure(options)
  \/ Return

LoggingNext ==
  \/ Return
  \/ Idle /\ \E options \in RuntimePatches : Configure(options)
  \/ Idle /\ \E enabled \in {JBool(FALSE), JBool(TRUE)} : SetEnabled(enabled)
  \/ Idle /\ \E cloudLevel \in AttachCloudLevels, resourceId \in AttachResourceIds :
               Attach(cloudLevel, resourceId)
  \/ Idle /\ \E method \in Methods, resourceId \in CallResourceIds, t \in Transports :
               LogMethod(method, resourceId, t)
  \/ Idle /\ \E level \in LogLevels, resourceId \in CallResourceIds, t \in Transports :
               LogLevel(level, resourceId, t)
  \/ Idle /\ \E outcome \in Outcomes : Settle(outcome)

EndpointNext ==
  \/ ConfigureNext
  \/ Idle /\ \E username \in EndpointUsers, resourceId \in EndpointResources :
               Endpoint(username, resourceId)

AttachNext ==
  \/ Return
  \/ Idle /\ \E cloudLevel \in OverrideLevels, resourceId \in AttachResourceIds :
               Attach(cloudLevel, resourceId)
  \/ Idle /\ \E cloudLevel \in OverrideLevels, resourceId \in AttachResourceIds :
               AttachForeign(cloudLevel, resourceId)
  \/ Idle /\ \E method \in {"debug", "error"}, t \in PlainTransports :
               LogMethod(method, JUndef, t)
  \/ Idle /\ \E method \in ForeignMethods, original \in Originals, t \in PlainTransports :
               \E args \in ForeignArgs(method) : ForeignCall(method, args, original, t)
  \/ Idle /\ \E outcome \in Outcomes : Settle(outcome)

HandlersNext ==
  \/ Return
  \/ Idle /\ \E cloudLevel \in HandlerLevels, resourceId \in AttachResourceIds :
               MakeHandler(cloudLevel, resourceId)
  \/ Idle /\ \E cloudLevel \in HandlerLevels, resourceId \in AttachResourceIds :
               GetLogger(cloudLevel, resourceId)
  \/ Idle /\ \E cloudLevel \in HandlerLevels, resourceId \in AttachResourceIds :
               AttachMade(cloudLevel, resourceId)
  \/ Idle /\ \E method \in Methods, t \in PlainTransports : MadeLog(method, t)
  \/ Idle /\ \E outcome \in Outcomes : Settle(outcome)

FunctionsNext ==
  \/ Return
  \/ Idle /\ \E env \in CallEnvs : BuildFromEnv(env)
  \/ Idle /\ \E level \in CoerceInputs : CoerceLevel(level)

Next ==
  ConfigureNext \/ LoggingNext \/ FunctionsNext \/ EndpointNext \/ AttachNext
    \/ HandlersNext

Spec == Init /\ [][Next]_vars

\* The configuration calls alone, over every options object of Patches.
SpecConfigure == Init /\ [][ConfigureNext]_vars

\* The logging path: records logged, posts settling, handlers attached and
\* the configuration changed in between.
SpecLogging == InitLogging /\ [][LoggingNext]_vars

\* Handlers attached to the module's logger and to a logger of the
\* application, and records logged through both.
SpecAttach == InitLogging /\ [][AttachNext]_vars

\* Handlers and loggers the application makes with handler(), getLogger() and
\* attach(), and the records it logs through them.
SpecHandlers == InitLogging /\ [][HandlersNext]_vars

\* The endpoint of a resource, asked for before and after configuration calls.
SpecEndpoint == Init /\ [][EndpointNext]_vars

\* The exported functions that leave the state alone, called on every input.
SpecFunctions == Init /\ [][FunctionsNext]_vars

(***************************************************************************)
(* Properties of configure                                                 *)
(***************************************************************************)
ConfigureHappened == ev.op = "configure"

\* The property names under which a caller supplies each configuration field.
FieldKeys ==
  [username |-> {"username"},
   resourceOwnerUsername |-> {},
   apiKey |-> {"apiKey", "api_key"},
   baseUrl |-> {"baseUrl", "base_url"},
   portalPrefix |-> {"portalPrefix", "portal_prefix"},
   resourceId |-> {},
   enabled |-> {"enabled"},
   cloudLevel |-> {"cloudLevel", "cloud_level"},
   timeoutSeconds |-> {"timeoutSeconds", "timeout_seconds"},
   verifySsl |-> {"verifySsl", "verify_ssl"},
   debug |-> {"debug"}]

Supplied(options, field) == FieldKeys[field] \cap DOMAIN options # {}

ResourceDerived == {"baseUrl", "portalPrefix", "resourceOwnerUsername", "resourceId"}

\* C6: configure is a merge.  After a configure call, every field the options
\* did not supply under its canonical or snake_case name has the value it had
\* before the call, except the fields derived from a supplied resource and the
\* cloudLevel when the call said debug:true.
C6_ConfigureIsMerge ==
  ConfigureHappened =>
    \A field \in DOMAIN FieldKeys :
      (/\ ~Supplied(ev.options, field)
       /\ ~("resource" \in DOMAIN ev.options /\ field \in ResourceDerived)
       /\ ~(Get(ev.options, "debug") = JBool(TRUE) /\ field = "cloudLevel"))
      => config[field] = ev.before[field]

\* A call that supplies apiKey alone on a configuration holding a username, a
\* resource and a non-default state: the key changes, the rest stays.
C6_Witness ==
  /\ ConfigureHappened
  /\ ev.err = "none"
  /\ DOMAIN ev.options = {"api_key"}
  /\ ev.before.username = S("viewer")
  /\ ev.before.resourceId = S("rid")
  /\ config.apiKey = S("k2")
  /\ ev.before.apiKey # config.apiKey
  /\ config.username = S("viewer")

\* What the resource URLs of the inputs denote.
ExpectedReference(resource) ==
  IF resource = JStr(ResourceAiLogs)
    THEN [baseUrl |-> JStr(<<"https:", "//", "alshival.ai">>),
          portalPrefix |-> JStr(<<"/", "DevTools">>),
          resourceOwnerUsername |-> JStr(<<"team", " ", "a">>),
          resourceId |-> S("r2")]
    ELSE [baseUrl |-> JStr(<<"https:", "//", "alshival.dev">>),
          portalPrefix |-> JStr(<< >>),
          resourceOwnerUsername |-> S("owner"),
          resourceId |-> S("rid")]

ParseableResources == {JStr(ResourceAiLogs), JStr(ResourceDev)}

\* C7: configure with a parseable resource URL sets resourceOwnerUsername and
\* resourceId from the URL whatever else is supplied; baseUrl and portalPrefix
\* come from the URL when the call does not supply them, and are the supplied
\* value (as configure stores it: one trailing slash stripped from baseUrl, the
\* prefix normalized) when it does.
C7_ResourceSuppliesDefaults ==
  (ConfigureHappened /\ Get(ev.options, "resource") \in ParseableResources) =>
    LET expected == ExpectedReference(ev.options["resource"])
        baseUrl == Either(ev.options, "baseUrl", "base_url")
        portalPrefix == Either(ev.options, "portalPrefix", "portal_prefix")
    IN /\ config.resourceOwnerUsername = expected.resourceOwnerUsername
       /\ config.resourceId = expected.resourceId
       /\ ~Supplied(ev.options, "baseUrl") => config.baseUrl = expected.baseUrl
       /\ ~Supplied(ev.options, "portalPrefix") =>
            config.portalPrefix = expected.portalPrefix
       /\ Supplied(ev.options, "baseUrl") =>
            config.baseUrl = JStr(StripOneTrailingSlash(ToStr(baseUrl)))
       /\ Supplied(ev.options, "portalPrefix") =>
            config.portalPrefix = normalizePortalPrefix(portalPrefix)

\* A resource URL with a prefix and a logs segment, together with an explicit
\* baseUrl: owner, id and prefix come from the URL, the base URL does not.
C7_Witness ==
  /\ ConfigureHappened
  /\ DOMAIN ev.options = {"resource", "base_url"}
  /\ ev.options["resource"] = JStr(ResourceAiLogs)
  /\ config.resourceOwnerUsername = JStr(<<"team", " ", "a">>)
  /\ config.portalPrefix = JStr(<<"/", "DevTools">>)
  /\ config.baseUrl = JStr(<<"https:", "//", "h.example", "/", "portal">>)
  /\ ev.before.resourceId # config.resourceId

ResourceKeys == {"resource", "baseUrl", "base_url", "portalPrefix", "portal_prefix"}

\* C8: configure with a resource reference that does not denote a resource
\* (not a URL, no u/<owner>/resources/<id> in its path, or an owner or id that
\* cannot be decoded to a non-empty string) completes without raising, leaves
\* resourceOwnerUsername and resourceId null, and leaves baseUrl and
\* portalPrefix as they were unless the same call supplied them.
C8_InvalidResourceClears ==
  (/\ ConfigureHappened
   /\ Has(ev.options, "resource")
   /\ DOMAIN ev.options \subseteq ResourceKeys
   /\ ev.options["resource"] \notin ParseableResources)
  => /\ ev.err = "none"
     /\ config.resourceOwnerUsername = JNull
     /\ config.resourceId = JNull
     /\ ~Supplied(ev.options, "baseUrl") => config.baseUrl = ev.before.baseUrl
     /\ ~Supplied(ev.options, "portalPrefix") =>
          config.portalPrefix = ev.before.portalPrefix

HasCloudLevelKey(options) == Supplied(options, "cloudLevel")

\* What the claims say a cloud level value means: the five names and NONE,
\* blanks and case aside; everything else is invalid.
InvalidCloudLevel == <<"invalid">>

CloudLevelMeaning(value) ==
  IF ~IsStr(value) THEN InvalidCloudLevel
  ELSE LET name == ToUpperCase(Trim(value[2])) IN
    CASE name = <<"NONE">> -> JNull
      [] name = <<"ALERT">> -> JNum(45)
      [] name = <<"ERROR">> -> JNum(40)
      [] name = <<"WARNING">> -> JNum(30)
      [] name = <<"INFO">> -> JNum(20)
      [] name = <<"DEBUG">> -> JNum(10)
      [] OTHER -> InvalidCloudLevel

\* C9: a configure call with debug:true and no cloud level key leaves
\* cloudLevel at DEBUG exactly when it was not disabled before, and disabled
\* when it was; with a cloud level key in the same call, the cloud level is
\* the supplied one.
C9_DebugBumpsCloudLevel ==
  (ConfigureHappened /\ Get(ev.options, "debug") = JBool(TRUE)) =>
    IF HasCloudLevelKey(ev.options)
      THEN LET meaning ==
                 CloudLevelMeaning(Either(ev.options, "cloudLevel", "cloud_level"))
           IN meaning # InvalidCloudLevel => config.cloudLevel = meaning
      ELSE /\ ev.before.cloudLevel # JNull => config.cloudLevel = JNum(10)
           /\ ev.before.cloudLevel = JNull => config.cloudLevel = JNull

\* C10: a configure call with a cloudLevel or cloud_level key raises
\* InvalidLevel when the value is not a string or is a string that, trimmed
\* and uppercased, is none of ALERT, ERROR, WARNING, INFO, DEBUG, NONE;
\* otherwise it sets cloudLevel to disabled for NONE and to 45, 40, 30, 20, 10
\* for the names.
C10_CloudLevelCoercion ==
  (ConfigureHappened /\ HasCloudLevelKey(ev.options)) =>
    LET meaning == CloudLevelMeaning(Either(ev.options, "cloudLevel", "cloud_level"))
    IN IF meaning = InvalidCloudLevel
         THEN ev.err = "InvalidLevel"
         ELSE ev.err = "none" /\ config.cloudLevel = meaning

\* The values the README documents as disabling cloud forwarding
\* (src/unnamed/part_002:34, 57), among the inputs.
DocumentedDisableValues == {JBool(FALSE), JStr(<<" ", "none", " ">>), S("off")}

\* The options with every cloud level key carrying value.
WithCloudLevel(options, value) ==
  [k \in DOMAIN options |->
     IF k \in {"cloudLevel", "cloud_level"} THEN value ELSE options[k]]

\* C11: a configure call whose cloud level is one of the documented disable
\* values (false, 'none', 'off', 'disabled', in any case) does not raise and
\* leaves cloudLevel disabled, and it leaves the configuration that the same
\* call with 'none' leaves.
C11_DisableValuesDisable ==
  (/\ ConfigureHappened
   /\ HasCloudLevelKey(ev.options)
   /\ Either(ev.options, "cloudLevel", "cloud_level") \in DocumentedDisableValues)
  => /\ ev.err = "none"
     /\ config.cloudLevel = JNull
     /\ config = configure(ev.before, WithCloudLevel(ev.options, S("none"))).cfg

(***************************************************************************)
(* Properties of the forwarding path                                       *)
(***************************************************************************)
\* The calls of CloudLogHandler.emit made by the logging call that has just
\* returned.
Emits == IF ev.op = "log" THEN {ev.trace[k] : k \in DOMAIN ev.trace} ELSE {}

Empty(v) == v \in {JNull, JUndef, JStr(<< >>)}

NonBlank(v) == IsStr(v) /\ Trim(v[2]) # << >>

\* The six forwarding conditions for handler h and the record of the call.
LevelReached(h) ==
  /\ config.cloudLevel # JNull
  /\ ev.record.levelno >= (IF handlers[h].cloudLevel # JNull
                             THEN handlers[h].cloudLevel[2]
                             ELSE config.cloudLevel[2])

ResourceResolves(h) ==
  \/ NonBlank(handlers[h].resourceId)
  \/ NonBlank(ev.record.alshival_resource_id)
  \/ NonBlank(config.resourceId)

AllSixHold(h) ==
  /\ config.enabled = JBool(TRUE)
  /\ config.cloudLevel # JNull
  /\ LevelReached(h)
  /\ ~Empty(config.apiKey)
  /\ ~Empty(config.username)
  /\ ResourceResolves(h)

\* C1: for every record emitted to a handler, the transport is not called for
\* that handler when config.enabled is false, or config.cloudLevel is
\* disabled, or the record's level is below the effective minimum (the
\* handler's override if set, else config.cloudLevel), or config.apiKey is
\* empty, or config.username is empty, or no non-empty resource id resolves
\* from the handler, the record or the config.
C1_SuppressedNeverForwards ==
  \A e \in Emits :
    (\/ config.enabled = JBool(FALSE)
     \/ config.cloudLevel = JNull
     \/ ~LevelReached(e.handler)
     \/ Empty(config.apiKey)
     \/ Empty(config.username)
     \/ ~ResourceResolves(e.handler))
    => e.calls = 0

\* A record that would be forwarded but for the username, which a configure
\* call has emptied: no transport call.
C1_Witness ==
  /\ ev.op = "log"
  /\ config.username = JStr(<< >>)
  /\ config.enabled = JBool(TRUE)
  /\ ~Empty(config.apiKey)
  /\ \E e \in Emits :
       /\ ~e.busy
       /\ LevelReached(e.handler)
       /\ ResourceResolves(e.handler)
       /\ e.calls = 0

\* The owner in the endpoint: resourceOwnerUsername if set, else username.
OwnerOrUsername ==
  IF ~Empty(config.resourceOwnerUsername) THEN config.resourceOwnerUsername
  ELSE config.username

\* The resource id of a forwarded record: the first of the handler's bound
\* resourceId, the call's resourceId option and config.resourceId that is not
\* blank, trimmed.
ResourceIdFor(h) ==
  IF NonBlank(handlers[h].resourceId) THEN Trim(handlers[h].resourceId[2])
  ELSE IF NonBlank(ev.record.alshival_resource_id)
    THEN Trim(ev.record.alshival_resource_id[2])
  ELSE Trim(ToStr(config.resourceId))

LevelText == [DEBUG |-> "debug", ERROR |-> "error", ALERT |-> "alert"]

\* /u/{url-encoded owner}/resources/{url-encoded id}/logs/
ResourcePath(h) ==
  <<"/", "u", "/">> \o encodeURIComponent(Trim(ToStr(OwnerOrUsername)))
    \o <<"/", "resources", "/">> \o encodeURIComponent(ResourceIdFor(h))
    \o <<"/", "logs", "/">>

ForwardedOnce(e) ==
  /\ e.calls = 1
  /\ e.request.level = LevelText[ev.record.levelname]
  /\ Contains(e.request.url, ResourcePath(e.handler))

\* C2 as stated: when all six forwarding conditions hold for a handler,
\* emitting a record to it makes exactly one transport call, whose
\* logs[0].level is the lowercased level name of the record and whose URL
\* contains /u/{owner-or-username}/resources/{resolved id}/logs/.
C2_AsStated == \A e \in Emits : AllSixHold(e.handler) => ForwardedOnce(e)

\* C2, amended: the same, for an emit that does not find the handler already
\* inside an emit (a nested emit on a busy handler is a no-op).
C2_ForwardsOnceUnlessBusy ==
  \A e \in Emits : (AllSixHold(e.handler) /\ ~e.busy) => ForwardedOnce(e)

\* An alert logged with every condition met, the owner of a shared resource
\* in the path.
C2_Witness ==
  /\ ev.op = "log"
  /\ ev.record.levelname = "ALERT"
  /\ ~Empty(config.resourceOwnerUsername)
  /\ \E e \in Emits :
       /\ AllSixHold(e.handler)
       /\ ~e.busy
       /\ e.calls = 1
       /\ e.request.level = "alert"

\* C3: a logging call returns normally whatever the transport does.  When the
\* transport throws, no exception leaves the call, the transport is not called
\* a second time for that emit, and a diagnostic line is written exactly when
\* config.debug is set; when a post is rejected, times out or ends with a
\* status of 400 or more, no rejection is left unhandled and a diagnostic line
\* is written exactly when config.debug is set; no diagnostic line is ever
\* written with config.debug unset.
C3_TransportFailuresStayInside ==
  /\ ev.op = "log" => ev.err = "none"
  /\ \A e \in Emits :
       /\ e.calls <= 1
       /\ e.diag => config.debug = JBool(TRUE)
       /\ e.threw => (e.diag <=> config.debug = JBool(TRUE))
  /\ ev.op = "settle" =>
       /\ ~ev.unhandled
       /\ ev.diag <=> (ev.outcome # "ok" /\ config.debug = JBool(TRUE))

\* The transport threw with debug on: the call returned, one diagnostic line.
C3_Witness ==
  /\ ev.op = "log"
  /\ ev.err = "none"
  /\ \E e \in Emits : e.calls = 1 /\ e.threw /\ e.diag

\* scheme and host of config.baseUrl, when it is a URL
BaseOf(baseUrl) ==
  LET parsed == ParseURL(ToStr(baseUrl)) IN <<parsed.protocol, "//", parsed.host>>

IsURL(v) == IsStr(v) /\ ParseURL(v[2]).ok

\* C4: every transport call targets
\* {scheme+host of config.baseUrl}{resolvedPortalPrefix}/u/{owner}/resources/{id}/logs/
\* with owner and id url-encoded, owner being config.resourceOwnerUsername if
\* set and config.username otherwise, and carries x-api-key = config.apiKey
\* and x-user-username = config.username, neither empty nor missing.  (When
\* config.baseUrl is not a URL the scheme and host are those of the default
\* base URL.)
C4_EndpointAndIdentity ==
  \A e \in Emits :
    e.calls = 1 =>
      /\ IsURL(config.baseUrl) =>
           e.request.url = BaseOf(config.baseUrl) \o resolvedPortalPrefix(config)
                             \o ResourcePath(e.handler)
      /\ ~IsURL(config.baseUrl) =>
           e.request.url = DEFAULT_BASE_URL \o resolvedPortalPrefix(config)
                             \o ResourcePath(e.handler)
      /\ e.request.x_api_key = config.apiKey
      /\ e.request.x_user_username = config.username
      /\ ~Empty(e.request.x_api_key)
      /\ ~Empty(e.request.x_user_username)

\* A record forwarded to a shared resource on the .ai host: the owner of the
\* resource in the path behind the portal prefix, the actor in the headers.
C4_Witness ==
  /\ ev.op = "log"
  /\ config.resourceOwnerUsername = JStr(<<"team", " ", "a">>)
  /\ \E e \in Emits :
       /\ e.calls = 1
       /\ e.request.url = <<"https:", "//", "alshival.ai", "/", "DevTools", "/", "u", "/",
                            "team", "%20", "a", "/", "resources", "/", "r2", "/",
                            "logs", "/">>
       /\ e.request.x_user_username = S("viewer")
       /\ e.request.x_api_key = S("k")

\* C5: the resource id of a forwarded record, in the payload and in the URL,
\* is the first non-empty value after trimming among the handler's bound
\* resourceId, the call's resourceId option and config.resourceId, in this
\* order.
C5_ResourceIdPriority ==
  \A e \in Emits :
    e.calls = 1 =>
      /\ e.request.resource_id = ResourceIdFor(e.handler)
      /\ e.request.resource_id # << >>
      /\ Contains(e.request.url,
                  <<"/", "resources", "/">> \o encodeURIComponent(ResourceIdFor(e.handler))
                    \o <<"/", "logs", "/">>)

\* One call with a resourceId option, a resource id in the config, and two
\* handlers: the unbound handler posts to the call's id, the bound one to its
\* own.
C5_Witness ==
  /\ ev.op = "log"
  /\ NonBlank(ev.record.alshival_resource_id)
  /\ NonBlank(config.resourceId)
  /\ \E e1, e2 \in Emits :
       /\ e1.calls = 1 /\ e2.calls = 1
       /\ handlers[e1.handler].resourceId = JNull
       /\ e1.request.resource_id = <<"percall">>
       /\ handlers[e2.handler].resourceId = S("bound")
       /\ e2.request.resource_id = <<"bound">>

(***************************************************************************)
(* Properties of the environment defaults                                  *)
(***************************************************************************)
BuildHappened == ev.op = "buildClientConfigFromEnv"

\* What the values of the debug flag and of the cloud level variable mean,
\* value by value: the flag is on for true and on; the level variable gives
\* the default for anything that is not NONE or one of the five cloud names.
DebugFlagOn == {S("true"), JStr(<<" ", "ON", " ">>)}

UseDefault == <<"default">>

EnvCloudLevelMeaning ==
  [v \in EnvCloudLevels |->
     CASE v \in {S("none"), JStr(<<" ", "NONE", " ">>)} -> JNull
       [] v = S("error") -> JNum(40)
       [] v = S("DEBUG") -> JNum(10)
       [] OTHER -> UseDefault]

\* The resource the environment names: ALSHIVAL_RESOURCE, or
\* ALSHIVAL_RESOURCE_URL when the former is unset or empty.
EnvResource(env) ==
  IF env.ALSHIVAL_RESOURCE \in {Unset, JStr(<< >>)} THEN env.ALSHIVAL_RESOURCE_URL
  ELSE env.ALSHIVAL_RESOURCE

StoredBaseUrl(value) ==
  CASE value = JStr(<<"https:", "//", "h.example", "/">>) ->
         JStr(<<"https:", "//", "h.example">>)
    [] OTHER -> JStr(<<"https:", "//", "alshival.dev">>)

\* C13: when the environment names a parseable resource URL, baseUrl,
\* portalPrefix, resourceOwnerUsername and resourceId are those of the
\* resource URL, whatever the base URL variable holds; when it names none,
\* baseUrl is the base URL variable, or https://alshival.dev when that is
\* unset or empty, and owner and id are null.
C13_EnvResourceWins ==
  (BuildHappened /\ ev.err = "none") =>
    IF EnvResource(ev.env) \in ParseableResources
      THEN \A field \in ResourceDerived :
             ev.cfg[field] = ExpectedReference(EnvResource(ev.env))[field]
      ELSE /\ ev.cfg.baseUrl = StoredBaseUrl(ev.env.ALSHIVAL_BASE_URL)
           /\ ev.cfg.resourceOwnerUsername = JNull
           /\ ev.cfg.resourceId = JNull

\* A resource on alshival.dev and a base URL on another host: the resource's.
C13_Witness ==
  /\ BuildHappened
  /\ ev.err = "none"
  /\ ev.env.ALSHIVAL_RESOURCE = JStr(ResourceDev)
  /\ ev.env.ALSHIVAL_BASE_URL = JStr(<<"https:", "//", "h.example", "/">>)
  /\ ev.cfg.baseUrl = JStr(<<"https:", "//", "alshival.dev">>)
  /\ ev.cfg.resourceId = S("rid")

BaseUrlVariableSet(env) == env.ALSHIVAL_BASE_URL \notin {Unset, JStr(<< >>)}

\* C14 as stated: with a parseable resource URL in the environment, baseUrl
\* and portalPrefix come from the resource URL only when the base URL variable
\* is not set; when it is set, baseUrl is the variable's; owner and id come
\* from the resource URL either way.
C14_AsStated ==
  (BuildHappened /\ ev.err = "none" /\ EnvResource(ev.env) \in ParseableResources) =>
    /\ ev.cfg.resourceOwnerUsername =
         ExpectedReference(EnvResource(ev.env)).resourceOwnerUsername
    /\ ev.cfg.resourceId = ExpectedReference(EnvResource(ev.env)).resourceId
    /\ IF BaseUrlVariableSet(ev.env)
         THEN ev.cfg.baseUrl = StoredBaseUrl(ev.env.ALSHIVAL_BASE_URL)
         ELSE /\ ev.cfg.baseUrl = ExpectedReference(EnvResource(ev.env)).baseUrl
              /\ ev.cfg.portalPrefix = ExpectedReference(EnvResource(ev.env)).portalPrefix

\* C14, amended: with a parseable resource URL in the environment and the base
\* URL variable set as well, baseUrl is the resource URL's and not the
\* variable's, portalPrefix is the resource URL's and not the prefix
\* variable's, and owner and id come from the resource URL.
C14_ResourceSuppliesBaseUrlAnyway ==
  (/\ BuildHappened
   /\ ev.err = "none"
   /\ EnvResource(ev.env) \in ParseableResources
   /\ BaseUrlVariableSet(ev.env))
  => /\ ev.cfg.baseUrl = ExpectedReference(EnvResource(ev.env)).baseUrl
     /\ ev.cfg.baseUrl # StoredBaseUrl(ev.env.ALSHIVAL_BASE_URL)
     /\ ev.cfg.portalPrefix = ExpectedReference(EnvResource(ev.env)).portalPrefix
     /\ ev.cfg.resourceOwnerUsername =
          ExpectedReference(EnvResource(ev.env)).resourceOwnerUsername
     /\ ev.cfg.resourceId = ExpectedReference(EnvResource(ev.env)).resourceId

\* A resource behind /DevTools named by ALSHIVAL_RESOURCE_URL, with the base
\* URL and the prefix variables set to something else.
C14_Witness ==
  /\ BuildHappened
  /\ ev.err = "none"
  /\ ev.env.ALSHIVAL_RESOURCE_URL = JStr(ResourceAiLogs)
  /\ BaseUrlVariableSet(ev.env)
  /\ ev.env.ALSHIVAL_PORTAL_PREFIX = JStr(<<"x", "/">>)
  /\ ev.cfg.baseUrl = JStr(<<"https:", "//", "alshival.ai">>)
  /\ ev.cfg.portalPrefix = JStr(<<"/", "DevTools">>)

(***************************************************************************)
(* Properties of the endpoint                                              *)
(***************************************************************************)
EndpointHappened == ev.op = "endpoint"

\* What the base URLs of the inputs denote: scheme and host, and the prefix
\* derived from them when the configuration holds none.  A base URL that is
\* no URL has the scheme and host of the default and no prefix.
BaseUrlMeaning(baseUrl) ==
  CASE baseUrl = JStr(<<"https:", "//", "alshival.ai">>) ->
         [base |-> <<"https:", "//", "alshival.ai">>, prefix |-> <<"/", "DevTools">>]
    [] baseUrl = JStr(<<"https:", "//", "h.example", "/", "portal">>) ->
         [base |-> <<"https:", "//", "h.example">>, prefix |-> <<"/", "portal">>]
    [] baseUrl = JStr(<<"https:", "//", "alshival.dev">>) ->
         [base |-> <<"https:", "//", "alshival.dev">>, prefix |-> << >>]
    [] baseUrl = S("not a url") ->
         [base |-> <<"https:", "//", "alshival.dev">>, prefix |-> << >>]

\* C15: resolvedPortalPrefix returns config.portalPrefix as it is whenever it
\* is not null, the empty string included; when it is null it returns the
\* path of baseUrl if there is one, else /DevTools on alshival.ai, else the
\* empty string; and the endpoint is scheme and host, then this prefix, then
\* /u/.
C15_PortalPrefixResolution ==
  EndpointHappened =>
    /\ config.portalPrefix # JNull => ev.prefix = config.portalPrefix[2]
    /\ config.portalPrefix = JNull => ev.prefix = BaseUrlMeaning(config.baseUrl).prefix
    /\ SubSeq(ev.url, 1, 3) = BaseUrlMeaning(config.baseUrl).base
    /\ SubSeq(ev.url, 4, 3 + Len(ev.prefix)) = ev.prefix
    /\ SubSeq(ev.url, 4 + Len(ev.prefix), 6 + Len(ev.prefix)) = <<"/", "u", "/">>

\* An explicit empty prefix on the alshival.ai host: no prefix in the URL.
C15_Witness ==
  /\ EndpointHappened
  /\ config.portalPrefix = JStr(<< >>)
  /\ config.baseUrl = JStr(<<"https:", "//", "alshival.ai">>)
  /\ ev.username = S("sam")
  /\ ev.url = <<"https:", "//", "alshival.ai", "/", "u", "/", "sam", "/", "resources", "/",
                "abc-123", "/", "logs", "/">>

(***************************************************************************)
(* Properties of attach                                                    *)
(***************************************************************************)
\* The handler list of the logger the attach call that has just returned was
\* made on.
AttachedList == IF ev.target = "log" THEN handlers ELSE foreign.handlers

NoTwoShare(list) ==
  \A i, j \in DOMAIN list : list[i].resourceId = list[j].resourceId => i = j

\* The transport calls one logging call made through the handlers of list
\* that are bound to resourceId.
CallsFor(list, trace, resourceId) ==
  Cardinality({k \in DOMAIN trace :
                 /\ list[trace[k].handler].resourceId = resourceId
                 /\ trace[k].calls = 1})

\* The number of an override level given by name; -1 for no level.
OverrideLevelNo(cloudLevel) ==
  IF cloudLevel = S("ERROR") THEN 40
  ELSE IF cloudLevel = S("DEBUG") THEN 10
  ELSE -1

\* C16: after any sequence of attach calls on one logger, the module's or a
\* foreign one, no two handlers of its list have the same bound resourceId;
\* one emitted record makes at most one transport call through the handlers
\* bound to one resourceId; and an attach with an override level higher than
\* the one the handler bound to that resourceId had makes that level the
\* handler's minimum.
C16_OneHandlerPerResourceId ==
  /\ NoTwoShare(handlers)
  /\ NoTwoShare(foreign.handlers)
  /\ ev.op = "log" =>
       \A resourceId \in AttachResourceIds : CallsFor(handlers, ev.trace, resourceId) <= 1
  /\ ev.op = "foreign" =>
       \A resourceId \in AttachResourceIds :
         CallsFor(foreign.handlers, ev.trace, resourceId) <= 1
  /\ ev.op = "attach" =>
       \A i \in DOMAIN ev.before :
         (/\ ev.before[i].resourceId = ev.resourceId
          /\ OverrideLevelNo(ev.cloudLevel) >= 0
          /\ (\/ ev.before[i].cloudLevel = JNull
              \/ ev.before[i].cloudLevel[2] < OverrideLevelNo(ev.cloudLevel)))
         => AttachedList[i].cloudLevel = JNum(OverrideLevelNo(ev.cloudLevel))

\* A second attach on the foreign logger with the resourceId its handler is
\* bound to and a higher level: one handler, at the higher level.
C16_Witness ==
  /\ ev.op = "attach"
  /\ ev.target = "foreign"
  /\ ev.resourceId = S("bound")
  /\ ev.cloudLevel = S("ERROR")
  /\ \E i \in DOMAIN ev.before :
       /\ ev.before[i].resourceId = S("bound")
       /\ ev.before[i].cloudLevel = JNum(10)
       /\ foreign.handlers[i].cloudLevel = JNum(40)
  /\ Len(foreign.handlers) = Len(ev.before)

\* C17: an attach with a resourceId that a handler of the list is bound to
\* keeps that handler where it was, and its override level is at least what
\* it was before the call.
C17_OverrideOnlyRaised ==
  ev.op = "attach" =>
    \A i \in DOMAIN ev.before :
      /\ AttachedList[i].resourceId = ev.before[i].resourceId
      /\ ev.before[i].cloudLevel # JNull =>
           /\ AttachedList[i].cloudLevel # JNull
           /\ AttachedList[i].cloudLevel[2] >= ev.before[i].cloudLevel[2]

\* A call of a method of the foreign logger after attach has wrapped it.
ForeignHappened == ev.op = "foreign" /\ foreign.patched

\* The calls of CloudLogHandler.emit on handler h in the call.
EmitsOn(h) == Cardinality({k \in DOMAIN ev.trace : ev.trace[k].handler = h})

\* The calls whose record is known from the method and the arguments alone.
RecordCertain ==
  \/ ev.method # "log"
  \/ ev.args = <<JNum(40), S("msg")>>

\* C18: after any number of attach calls on one foreign logger, a call of a
\* wrapped method runs the logger's own method exactly once and returns its
\* value or throws its exception and nothing else; every attached handler is
\* handed the record at most once, and exactly once when the record is
\* certain, also when the logger's own method throws.
C18_WrappedOnce ==
  ForeignHappened =>
    /\ ev.originals = 1
    /\ ev.err = (IF ev.original.throws THEN "OriginalError" ELSE "none")
    /\ ~ev.original.throws => ev.value = ev.original.value
    /\ \A h \in DOMAIN foreign.handlers : EmitsOn(h) <= 1
    /\ RecordCertain => \A h \in DOMAIN foreign.handlers : EmitsOn(h) = 1

\* The logger's own method throws after three attach calls, two of them with
\* the same resourceId: both handlers are handed the record, one forwards it.
C18_Witness ==
  /\ ForeignHappened
  /\ ev.original.throws
  /\ ev.err = "OriginalError"
  /\ Len(foreign.handlers) = 2
  /\ \A h \in DOMAIN foreign.handlers : EmitsOn(h) = 1
  /\ \E k \in DOMAIN ev.trace : ev.trace[k].calls = 1

(***************************************************************************)
(* Properties of the MCP descriptor                                        *)
(***************************************************************************)
\* The identity value that resolves from a configuration field and the
\* environment variable behind it: the first that is not blank, trimmed;
\* << >> when neither.
Resolves(value, envValue) ==
  IF NonBlank(value) THEN Trim(value[2])
  ELSE IF NonBlank(envValue) THEN Trim(envValue[2])
  ELSE << >>

\* The header holding a resolved value; no header for none.
HeaderOf(resolved) == IF resolved = << >> THEN JUndef ELSE JStr(resolved)

\* C19: after every configure call the descriptor `mcp` carries the identity
\* of the configuration: x-api-key is the apiKey that resolves, x-user-username
\* the username that resolves, and there is no x-user-username header when no
\* username resolves.
C19_McpFollowsConfigure ==
  ConfigureHappened =>
    /\ mcp.headers.x_api_key = HeaderOf(Resolves(config.apiKey, processEnv.ALSHIVAL_API_KEY))
    /\ mcp.headers.x_user_username =
         HeaderOf(Resolves(config.username, processEnv.ALSHIVAL_USERNAME))

(***************************************************************************)
(* Properties of coerceLevel                                               *)
(***************************************************************************)
CoerceHappened == ev.op = "coerceLevel"

\* The reference mapping: the disable tokens, and the number of every name.
ReferenceDisabled == {"NONE", "NULL", "FALSE", "OFF", "DISABLE", "DISABLED"}

ReferenceNumber ==
  [WARN |-> 30, WARNING |-> 30, FATAL |-> 50, CRITICAL |-> 50, ALERTS |-> 45,
   ALERT |-> 45, ERROR |-> 40, INFO |-> 20, DEBUG |-> 10, NOTSET |-> 0]

\* The integer part of the finite numbers of the input set.
ReferenceTruncated ==
  (JNum(0) :> 0) @@ (JNum(40) :> 40) @@ (JNum(42) :> 42) @@ (JTenths(459) :> 45)
    @@ (JTenths(5) :> 0) @@ (JTenths(-15) :> -1)

Disabled == ev.err = "none" /\ ev.v = JNull

Yields(n) == ev.err = "none" /\ ev.v = <<"number", n>>

Raises == ev.err = "InvalidLevel"

\* C20: coerceLevel agrees with the reference mapping: null, false and every
\* spelling of a disable token yield disabled; every spelling of a level name
\* or alias yields the number of the name; a finite number yields its integer
\* part; true and every string that is none of these raise InvalidLevel; and
\* coerceLevel of a result is that result.
C20_CoerceLevelReference ==
  CoerceHappened =>
    /\ ev.level \in {JNull, JBool(FALSE)} => Disabled
    /\ ev.level = JBool(TRUE) => Raises
    /\ \A p \in LevelSpellings :
         (IsStr(ev.level) /\ ev.level \in SpellingsOf(p)) =>
           IF p[1] \in ReferenceDisabled THEN Disabled
           ELSE Yields(ReferenceNumber[p[1]])
    /\ (IsStr(ev.level) /\ \A p \in LevelSpellings : ev.level \notin SpellingsOf(p))
         => Raises
    /\ ev.level \in DOMAIN ReferenceTruncated => Yields(ReferenceTruncated[ev.level])
    /\ ev.err = "none" => (ev.again.err = "none" /\ ev.again.v = ev.v)

\* 45.9 yields 45, and 45 yields 45 again.
C20_Witness ==
  /\ CoerceHappened
  /\ ev.level = JTenths(459)
  /\ Yields(45)
  /\ ev.again.v = <<"number", 45>>

(***************************************************************************)
(* Properties of the in-emit guard                                         *)
(***************************************************************************)
\* The positions in the trace of the calls of emit on handler h.
EmitsAt(h) == {k \in DOMAIN ev.trace : ev.trace[k].handler = h}

\* C21: an emit that finds its handler inside an emit makes no transport
\* call, throws nothing and writes nothing; the guard is released whenever
\* emit returns, whether it forwarded, dropped the record or caught an error:
\* no handler is left inside an emit once a logging call has returned, and the
\* emit a logging call itself makes on a handler (the last in the trace, the
\* nested ones ending before it) is never taken for a nested one.
C21_GuardReleased ==
  /\ \A h \in DOMAIN handlers : ~handlers[h].inEmit
  /\ \A e \in Emits : e.busy => (e.calls = 0 /\ ~e.threw /\ ~e.diag)
  /\ ev.op = "log" =>
       \A h \in DOMAIN handlers :
         EmitsAt(h) # {} =>
           ~ev.trace[CHOOSE k \in EmitsAt(h) : \A j \in EmitsAt(h) : j <= k].busy

\* The transport logs the record again and then throws: the nested emit on
\* the handler is a no-op, the outer one called the transport once and caught
\* the error, and the handler is free again.
C21_Witness ==
  /\ ev.op = "log"
  /\ \E j, k \in DOMAIN ev.trace :
       /\ j < k
       /\ ev.trace[j].handler = ev.trace[k].handler
       /\ ev.trace[j].busy
       /\ ev.trace[j].calls = 0
       /\ ev.trace[k].calls = 1
       /\ ev.trace[k].threw
       /\ ~handlers[ev.trace[k].handler].inEmit

(***************************************************************************)
(* Properties of a configure call that raises                              *)
(***************************************************************************)
\* C23: a configure call that raises InvalidLevel for its cloudLevel or
\* cloud_level leaves the configuration exactly as it was before the call.
C23_InvalidLevelChangesNothing ==
  (ConfigureHappened /\ ev.err = "InvalidLevel") => config = ev.before

(***************************************************************************)
(* Properties of handlers made with a disable token                        *)
(***************************************************************************)
\* The disable tokens a handler is created with.
DisableTokens == {JBool(FALSE), S("none"), S("off"), S("disabled")}

\* The configuration lets a record of this level through for a handler bound
\* to resourceId that has no override of its own.
ConfigForwards(levelno, resourceId) ==
  /\ config.enabled = JBool(TRUE)
  /\ config.cloudLevel # JNull
  /\ levelno >= config.cloudLevel[2]
  /\ ~Empty(config.apiKey)
  /\ ~Empty(config.username)
  /\ NonBlank(resourceId) \/ NonBlank(config.resourceId)

\* C22: a handler created by handler(), getLogger() or attach() with a disable
\* token as its cloudLevel makes no transport call for any record, whatever
\* config.cloudLevel is; a handler created with no cloudLevel follows
\* config.cloudLevel: it forwards a record the configuration lets through and
\* no record below config.cloudLevel.
C22_DisabledOverrideNeverForwards ==
  ev.op = "madeLog" =>
    \A k \in DOMAIN ev.trace :
      /\ made.given[ev.trace[k].handler] \in DisableTokens => ev.trace[k].calls = 0
      /\ made.given[ev.trace[k].handler] = JUndef =>
           /\ ConfigForwards(ev.record.levelno,
                             made.handlers[ev.trace[k].handler].resourceId)
                => ev.trace[k].calls = 1
           /\ (\/ config.cloudLevel = JNull
               \/ ev.record.levelno < config.cloudLevel[2]) => ev.trace[k].calls = 0
=============================================================================
